---- MODULE Spec2Model ----
(***************************************************************************)
(* Orchestration core of the minecraft-mcp bot: BotManager (connection     *)
(* lifecycle, reconnection, stop counter, mineArea), PathfinderController  *)
(* and GoalExecutor (movement goals), LLMAgent.processMessage (tool        *)
(* sequences).  The world link (mineflayer bot) and the path solver are    *)
(* external: their events and promise settlements are the environment.     *)
(*                                                                         *)
(* JavaScript runs one handler at a time; an async function runs           *)
(* synchronously up to its next await on an external promise.  Each action *)
(* below is one such run-to-completion step.  Handlers are written as      *)
(* operators from a state record to a state record so that a handler can   *)
(* call another (connect calls disconnect, the reconnect timer calls       *)
(* connect, mineArea calls moveTo calls executeGoto).                      *)
(***************************************************************************)
EXTENDS Integers, Sequences, FiniteSets, TLC

\* ----------------------------------------------------------------- bounds
\* config.advanced.maxReconnectAttempts (MAX_RECONNECT_ATTEMPTS, default 10)
maxReconnectAttempts == 2
\* createBot calls explored beyond the reconnect budget
ExtraLinks == 1
MaxLinks == maxReconnectAttempts + ExtraLinks + 1
\* RECONNECT_DELAY_MS when the environment does not set it (config-loader.ts:101)
DefaultReconnectDelayMs == 5000
\* the cap of the reconnect delay (bot-manager.ts:318)
capDelayMs == 60000
\* MAX_RECONNECT_ATTEMPTS of the runs that explore the delay schedule
DelayBudget == 8
\* unchangedTickLimit (obstacle-handler.ts:15)
unchangedTickLimit == 6
\* goal objects (executeGoto attempts and follow goals) created in one run
MaxGoals == 3
\* mineArea invocations that pass the precondition checks in one run
MaxTasks == 2
\* stopMovement calls in one run
MaxStops == 2
\* tool calls in one model response
MaxToolCalls == 2
\* model responses followed in one processMessage invocation
MaxResponses == 2
\* rounds of the agentic loop of processMessage (llm-agent.ts:149)
maxRounds == 10
\* minedBlocks is counted up to this value; larger counts are not told apart
MaxMined == 3
\* credential attempt sequences of one AuthHandler in flight at once
MaxSeqs == 2
\* credential submissions of one AuthHandler
MaxAttempts == 6

\* ------------------------------------------------------------------ state
VARIABLES
  \* BotManager fields (bot-manager.ts:58-68)
  bot,                \* this.bot !== null
  reconnectAttempts,
  reconnectTimer,     \* this.reconnectTimer !== null
  isShuttingDown,
  mcExists,           \* this.movementController !== null
  miningInProgress,
  abortMining,
  stopSignal,
  \* the world link held in this.bot (mineflayer Bot)
  entity,             \* bot.entity !== undefined
  linkState,          \* "none" | "open" | "ended"
  linkKicked,         \* the link has emitted 'kicked'
  linksCreated,       \* createBot calls so far
  connectState,       \* promise of the latest connect(): "none" | "pending" | "resolved" | "rejected"
  \* links released by disconnect(): whether one has yet to emit its 'end'
  \* (caused by quit) and whether the manager's listeners are still on it
  released,
  \* config.advanced.reconnectDelayMs, and the delay of the pending
  \* reconnect timeout (0 when none is pending)
  reconnectDelayMs,
  delayMs,
  \* the ObstacleHandler of the controller: whether its interval is set,
  \* whether lastPosition is non-null, and unchangedTicks
  obstacle,
  \* the corners passed to a buildAreaBounds call and what it returned for
  \* them in either order
  area,
  \* the AuthHandler of the latest link (auth-handler.ts:17-47) and
  \* config.auth.autoRegister
  auth,
  autoRegister,
  \* PathfinderController / GoalExecutor / solver of the current link
  initialized,        \* PathfinderController.initialized (goalExecutor !== null)
  solverGoal,         \* goal held by bot.pathfinder: 0 = null, else a goal id
  currentGoal,        \* GoalExecutor.currentGoal: 0 = null, else a goal id
  currentGoalDescription,
  currentGoalDynamic,
  status,             \* PathfinderController.status
  goals,              \* goal objects: executeGoto attempts and follow goals
  \* mineArea invocations (their local variables and await position)
  tasks,
  \* the world as the link reports it: which cells hold a diggable block
  world,
  \* the LLMAgent.processMessage invocation in flight
  llm,
  \* observations (history of what the handlers did)
  timersLive,         \* reconnect timeouts scheduled and neither fired nor cleared
  termSchedules,      \* reconnect timers scheduled on behalf of the current link
  termAttempts,       \* reconnect attempts consumed on behalf of the current link
  termExhausted,      \* 'Reconnect budget exhausted' reports for the current link
  stopCalls,          \* stopMovement() calls so far
  lastOp              \* the operation of the last step, its outcome, whether
                      \* it emitted goal_stopped or 'stuck', the goal it
                      \* re-issued to the solver (with which dynamic flag), and
                      \* what the position sample it took was like, and
                      \* the chat line it delivered

vars == << bot, reconnectAttempts, reconnectTimer, isShuttingDown, mcExists,
           miningInProgress, abortMining, stopSignal, entity, linkState,
           linkKicked, linksCreated, connectState, released, reconnectDelayMs,
           delayMs, area, obstacle, auth, autoRegister, initialized, solverGoal,
           currentGoal, currentGoalDescription, currentGoalDynamic, status,
           goals, tasks, world, llm, timersLive, termSchedules, termAttempts, termExhausted,
           stopCalls, lastOp >>

\* The state as one record, read by the handlers.
State ==
  [ bot |-> bot, reconnectAttempts |-> reconnectAttempts,
    reconnectTimer |-> reconnectTimer, isShuttingDown |-> isShuttingDown,
    mcExists |-> mcExists, miningInProgress |-> miningInProgress,
    abortMining |-> abortMining, stopSignal |-> stopSignal, entity |-> entity,
    linkState |-> linkState, linkKicked |-> linkKicked,
    linksCreated |-> linksCreated, connectState |-> connectState,
    released |-> released, reconnectDelayMs |-> reconnectDelayMs,
    delayMs |-> delayMs, area |-> area, obstacle |-> obstacle, auth |-> auth, autoRegister |-> autoRegister,
    initialized |-> initialized, solverGoal |-> solverGoal,
    currentGoal |-> currentGoal,
    currentGoalDescription |-> currentGoalDescription,
    currentGoalDynamic |-> currentGoalDynamic, status |-> status,
    goals |-> goals, tasks |-> tasks, world |-> world, llm |-> llm,
    timersLive |-> timersLive,
    termSchedules |-> termSchedules, termAttempts |-> termAttempts,
    termExhausted |-> termExhausted, stopCalls |-> stopCalls,
    lastOp |-> [lastOp EXCEPT !.stopped = FALSE, !.stuck = FALSE,
                              !.retried = 0, !.retriedDynamic = FALSE,
                              !.sample = "none", !.line = {"none"}],
    overflow |-> FALSE ]

\* The next state is the record a handler returns.  A handler that would
\* create more goals, tasks or stop requests than the bounds allow sets
\* `overflow`, and the step is not taken.
Becomes(s) ==
  /\ ~s.overflow
  /\ bot' = s.bot
  /\ reconnectAttempts' = s.reconnectAttempts
  /\ reconnectTimer' = s.reconnectTimer
  /\ isShuttingDown' = s.isShuttingDown
  /\ mcExists' = s.mcExists
  /\ miningInProgress' = s.miningInProgress
  /\ abortMining' = s.abortMining
  /\ stopSignal' = s.stopSignal
  /\ entity' = s.entity
  /\ linkState' = s.linkState
  /\ linkKicked' = s.linkKicked
  /\ linksCreated' = s.linksCreated
  /\ connectState' = s.connectState
  /\ released' = s.released
  /\ reconnectDelayMs' = s.reconnectDelayMs
  /\ delayMs' = s.delayMs
  /\ area' = s.area
  /\ obstacle' = s.obstacle
  /\ auth' = s.auth
  /\ autoRegister' = s.autoRegister
  /\ initialized' = s.initialized
  /\ solverGoal' = s.solverGoal
  /\ currentGoal' = s.currentGoal
  /\ currentGoalDescription' = s.currentGoalDescription
  /\ currentGoalDynamic' = s.currentGoalDynamic
  /\ status' = s.status
  /\ goals' = s.goals
  /\ tasks' = s.tasks
  /\ world' = s.world
  /\ llm' = s.llm
  /\ timersLive' = s.timersLive
  /\ termSchedules' = s.termSchedules
  /\ termAttempts' = s.termAttempts
  /\ termExhausted' = s.termExhausted
  /\ stopCalls' = s.stopCalls
  /\ lastOp' = s.lastOp

\* ------------------------------------------------------- movement: values
NoGoal == 0
NoDescription == [kind |-> "null", target |-> "null", range |-> 0]
GoalIds == 1..MaxGoals

\* MovementStatus of a fresh PathfinderController
IdleStatus == [moving |-> FALSE, currentGoal |-> NoDescription, lastError |-> "null"]

\* A goal slot not yet used by `new goals.GoalBlock/GoalNear/GoalFollow`.
\* `late` tells that the attempt was ended by the withTimeout timer while the
\* promise of pathfinder.goto is still open.  `timers` counts the timers that
\* withTimeout holds for the attempt, `retries` counts, up to MaxRetries, how
\* often retryCurrentGoal re-issued the goal of a pending attempt; the count is
\* kept while the attempt is pending or late.
FreeGoal ==
  [st |-> "free", description |-> NoDescription, owner |-> 0, gen |-> 0,
   events |-> 0, late |-> FALSE, timers |-> 0, retries |-> 0]

\* The executor and solver a goal belongs to are those of the link that was
\* current when the goal was created; destroy() and createBot() replace them.
Live(s, g) == s.goals[g].gen = s.linksCreated /\ s.initialized

\* ------------------------------------------------------- numbers of the area
\* A JavaScript number: NaN, or a multiple of one half (`halves` halves)
NaN == [nan |-> TRUE, halves |-> 0]
Num(h) == [nan |-> FALSE, halves |-> h]

\* Math.floor
MathFloor(v) == IF v.nan THEN NaN ELSE Num(2 * (v.halves \div 2))

\* Math.min and Math.max of two numbers: NaN if either is
MathMin2(a, b) ==
  IF a.nan \/ b.nan THEN NaN ELSE IF a.halves <= b.halves THEN a ELSE b
MathMax2(a, b) ==
  IF a.nan \/ b.nan THEN NaN ELSE IF a.halves >= b.halves THEN a ELSE b

\* a <= b and a === b of two numbers: false if either is NaN
LessEq(a, b) == ~a.nan /\ ~b.nan /\ a.halves <= b.halves
StrictEq(a, b) == ~a.nan /\ ~b.nan /\ a.halves = b.halves

\* buildAreaBounds without Math.min / Math.max
buildAreaBounds_NoSort(from, to) ==
  [minX |-> MathFloor(from.x), maxX |-> MathFloor(to.x),
   minY |-> MathFloor(from.y), maxY |-> MathFloor(to.y),
   minZ |-> MathFloor(from.z), maxZ |-> MathFloor(to.z)]

\* BotManager.buildAreaBounds
buildAreaBounds(from, to) ==
  LET fromX == MathFloor(from.x)
      fromY == MathFloor(from.y)
      fromZ == MathFloor(from.z)
      toX == MathFloor(to.x)
      toY == MathFloor(to.y)
      toZ == MathFloor(to.z)
  IN [minX |-> MathMin2(fromX, toX), maxX |-> MathMax2(fromX, toX),
      minY |-> MathMin2(fromY, toY), maxY |-> MathMax2(fromY, toY),
      minZ |-> MathMin2(fromZ, toZ), maxZ |-> MathMax2(fromZ, toZ)]

\* The coordinates tried: -1.5, 0.5, 1 and NaN (Number(undefined), the value
\* of a coordinate missing from the arguments of mine_area)
Coordinates == {Num(-3), Num(0), Num(1), Num(2), NaN}
Corners == [x : Coordinates, y : Coordinates, z : Coordinates]

\* No buildAreaBounds call is followed
NoArea ==
  [called |-> FALSE, from |-> [x |-> Num(0), y |-> Num(0), z |-> Num(0)],
   to |-> [x |-> Num(0), y |-> Num(0), z |-> Num(0)],
   bounds |-> buildAreaBounds([x |-> Num(0), y |-> Num(0), z |-> Num(0)],
                              [x |-> Num(0), y |-> Num(0), z |-> Num(0)]),
   swapped |-> buildAreaBounds([x |-> Num(0), y |-> Num(0), z |-> Num(0)],
                               [x |-> Num(0), y |-> Num(0), z |-> Num(0)])]

\* --------------------------------------------------------- mining: values
\* The cells of the cuboid passed to mineArea, by blockKey
Cells == {"a", "b"}
NoCell == "none"
TaskIds == 1..MaxTasks

\* A mineArea invocation that has not been made yet
FreeTask ==
  [pc |-> "free", cell |-> NoCell, minedBlocks |-> 0, skippedBlocks |-> 0,
   ignoredBlocks |-> {}, shouldRescanAfterReposition |-> FALSE,
   stopped |-> FALSE, decided |-> {}, revisited |-> FALSE, unseen |-> FALSE,
   hovers |-> 0]

RunningPcs == {"moveCell", "equip", "lookAt", "dig", "hover"}

\* ------------------------------------------------------------ LLM: values
\* BOT_TOOLS (llm-agent.ts:6-105)
Tools == {"move_to", "follow_player", "mine_area", "stop_movement", "send_chat", "get_status"}
ToolCalls == UNION {[1..n -> Tools] : n \in 1..MaxToolCalls}

\* The owner of a goal awaited by executeTool
LLMOwner == -1

\* No processMessage in flight
IdleLLM ==
  [pc |-> "idle", round |-> 0, stopSignalAtStart |-> 0, stopCallsAtStart |-> 0,
   calls |-> << >>, awaitKind |-> "none", awaitId |-> 0, result |-> "none",
   stoppedMidRound |-> FALSE, issuedAfterStop |-> FALSE]

\* ------------------------------------------- GoalExecutor event listeners
\* PathfinderController.initialize registers these on the executor; they
\* keep `status`.  destroy() removes them (removeAllListeners).
onGoalStarted(s, description) ==
  [s EXCEPT !.status = [moving |-> TRUE, currentGoal |-> description, lastError |-> "null"]]

onGoalReached(s) ==
  [s EXCEPT !.status = [@ EXCEPT !.moving = FALSE, !.currentGoal = NoDescription]]

onGoalFailed(s, message) ==
  [s EXCEPT !.status = [moving |-> FALSE, currentGoal |-> NoDescription, lastError |-> message]]

onGoalStopped(s) ==
  [s EXCEPT !.status = [@ EXCEPT !.moving = FALSE, !.currentGoal = NoDescription]]

\* ----------------------------------------------------------- GoalExecutor
HasFreeGoal(s) == \E g \in GoalIds : s.goals[g].st = "free"

\* `new goals.GoalBlock / GoalNear / GoalFollow`: a fresh object each call
NewGoalId(s) ==
  IF ~HasFreeGoal(s) THEN 1
  ELSE CHOOSE g \in GoalIds :
         /\ s.goals[g].st = "free"
         /\ \A h \in GoalIds : h < g => s.goals[h].st /= "free"

Overflow(s) == [s EXCEPT !.overflow = TRUE]

\* A terminal event (goal_reached, goal_failed, goal_stopped) emitted while g
\* is the goal it is about.
CountTerminalEvent(s, g) ==
  IF g = NoGoal THEN s ELSE [s EXCEPT !.goals[g].events = @ + 1]

\* stopCurrentGoal without pathfinder.setGoal(null)
stopCurrentGoal_KeepSolverGoal(s) ==
  LET s1 == CountTerminalEvent(s, s.currentGoal)
      s2 == [s1 EXCEPT !.currentGoal = NoGoal,
                       !.currentGoalDescription = NoDescription,
                       !.currentGoalDynamic = FALSE,
                       !.lastOp.stopped = TRUE]
  IN onGoalStopped(s2)

\* GoalExecutor.stopCurrentGoal
stopCurrentGoal(s) ==
  LET s1 == CountTerminalEvent(s, s.currentGoal)
      s2 == [s1 EXCEPT !.solverGoal = NoGoal,
                       !.currentGoal = NoGoal,
                       !.currentGoalDescription = NoDescription,
                       !.currentGoalDynamic = FALSE,
                       !.lastOp.stopped = TRUE]
  IN onGoalStopped(s2)

\* GoalExecutor.followEntity
followEntity(s, distance) ==
  LET g == NewGoalId(s)
      description == [kind |-> "follow", target |-> "entity", range |-> distance]
      s1 == [s EXCEPT !.goals[g] = [st |-> "follow", description |-> description,
                                     owner |-> 0, gen |-> s.linksCreated,
                                     events |-> 0, late |-> FALSE,
                                     timers |-> 0, retries |-> 0],
                      !.currentGoal = g,
                      !.currentGoalDescription = description,
                      !.currentGoalDynamic = TRUE,
                      !.solverGoal = g]
  IN IF HasFreeGoal(s) THEN onGoalStarted(s1, description) ELSE Overflow(s)

\* GoalExecutor.executeGoto up to its await: the goal becomes the executor's
\* current goal, goal_started is emitted and pathfinder.goto(goal) hands the
\* goal to the solver.  The attempt stays pending until the solver settles
\* the promise or the withTimeout timer fires.
executeGotoStart(s, description, owner) ==
  LET g == NewGoalId(s)
      s1 == [s EXCEPT !.goals[g] = [st |-> "pending", description |-> description,
                                     owner |-> owner, gen |-> s.linksCreated,
                                     events |-> 0, late |-> FALSE,
                                     timers |-> 1, retries |-> 0],
                      !.currentGoal = g,
                      !.currentGoalDescription = description,
                      !.currentGoalDynamic = FALSE,
                      !.solverGoal = g]
  IN IF HasFreeGoal(s) THEN onGoalStarted(s1, description) ELSE Overflow(s)

\* The finally block of executeGoto: clears whatever the executor holds.
executeGotoFinally(s, g) ==
  IF Live(s, g)
    THEN [s EXCEPT !.currentGoal = NoGoal,
                   !.currentGoalDescription = NoDescription,
                   !.currentGoalDynamic = FALSE]
    ELSE s

\* The promise of executeGoto has settled: the attempt is over.  Only the
\* number of terminal events it saw is kept; the timer of withTimeout has
\* fired or was cleared.
Settled(s, g) ==
  [s EXCEPT !.goals[g] = [FreeGoal EXCEPT !.st = "done",
                                          !.events = s.goals[g].events]]

\* executeGoto after pathfinder.goto(goal) resolved before the timeout
executeGotoReached(s, g) ==
  LET s1 == CountTerminalEvent(s, g)
      s2 == IF Live(s1, g) THEN onGoalReached(s1) ELSE s1
  IN Settled(executeGotoFinally(s2, g), g)

\* executeGoto whose catch block does not call pathfinder.setGoal(null)
executeGotoFailed_NoClear(s, g, message) ==
  LET s2 == CountTerminalEvent(s, g)
      s3 == IF Live(s2, g) THEN onGoalFailed(s2, message) ELSE s2
      s4 == Settled(executeGotoFinally(s3, g), g)
  IN [s4 EXCEPT !.goals[g].late = (message = "timeout"),
                !.goals[g].retries = IF message = "timeout" THEN s.goals[g].retries
                                                            ELSE 0]

\* executeGoto after the promise rejected: by the solver (message "error")
\* or by the withTimeout timer (message "timeout")
executeGotoFailed(s, g, message) ==
  LET s1 == IF Live(s, g) THEN [s EXCEPT !.solverGoal = NoGoal] ELSE s
      s2 == CountTerminalEvent(s1, g)
      s3 == IF Live(s2, g) THEN onGoalFailed(s2, message) ELSE s2
      s4 == Settled(executeGotoFinally(s3, g), g)
  IN [s4 EXCEPT !.goals[g].late = (message = "timeout"),
                !.goals[g].retries = IF message = "timeout" THEN s.goals[g].retries
                                                            ELSE 0]

\* withTimeout after its timer rejected: the then/catch callbacks of the
\* promise of pathfinder.goto clear the timer and settle a promise that is
\* settled already.
withTimeoutLate(s, g) ==
  [s EXCEPT !.goals[g].late = FALSE, !.goals[g].retries = 0]

\* The retries of an attempt are counted up to MaxRetries.
MaxRetries == 2
CountRetry(n) == IF n < MaxRetries THEN n + 1 ELSE n

\* retryCurrentGoal that runs the goal through withTimeout again
retryCurrentGoal_NewTimeout(s) ==
  IF s.currentGoal = NoGoal THEN s
  ELSE [s EXCEPT !.solverGoal = s.currentGoal,
                 !.goals[s.currentGoal].retries =
                     IF s.goals[s.currentGoal].st = "pending" THEN CountRetry(@) ELSE @,
                 !.goals[s.currentGoal].timers = @ + 1,
                 !.lastOp.retried = s.currentGoal,
                 !.lastOp.retriedDynamic = s.currentGoalDynamic]

\* GoalExecutor.retryCurrentGoal
retryCurrentGoal(s) ==
  IF s.currentGoal = NoGoal THEN s
  ELSE [s EXCEPT !.solverGoal = s.currentGoal,
                 !.goals[s.currentGoal].retries =
                     IF s.goals[s.currentGoal].st = "pending" THEN CountRetry(@) ELSE @,
                 !.lastOp.retried = s.currentGoal,
                 !.lastOp.retriedDynamic = s.currentGoalDynamic]

\* -------------------------------------------------------- ObstacleHandler
\* No ObstacleHandler, or one that was stopped
NoObstacle == [monitorTimer |-> FALSE, lastPosition |-> FALSE, unchangedTicks |-> 0]

\* ObstacleHandler.start
obstacleStart(s) ==
  IF s.obstacle.monitorTimer THEN s ELSE [s EXCEPT !.obstacle.monitorTimer = TRUE]

\* ObstacleHandler.stop
obstacleStop(s) ==
  IF ~s.obstacle.monitorTimer THEN s ELSE [s EXCEPT !.obstacle = NoObstacle]

\* The 'stuck' listener of PathfinderController.initialize
onStuck(s) == retryCurrentGoal([s EXCEPT !.lastOp.stuck = TRUE])

\* checkMovement that leaves unchangedTicks at the limit when it emits 'stuck'
checkMovement_NoReset(s, moving, still) ==
  IF ~moving \/ ~s.entity
    THEN [s EXCEPT !.obstacle.lastPosition = FALSE, !.obstacle.unchangedTicks = 0,
                   !.lastOp.sample = "idle"]
  ELSE IF ~s.obstacle.lastPosition
    THEN [s EXCEPT !.obstacle.lastPosition = TRUE, !.lastOp.sample = "first"]
  ELSE LET ticks == IF still THEN s.obstacle.unchangedTicks + 1 ELSE 0
           s1 == [s EXCEPT !.obstacle.unchangedTicks = ticks,
                           !.lastOp.sample = IF still THEN "still" ELSE "moved"]
       IN IF ticks >= unchangedTickLimit
            THEN onStuck([s1 EXCEPT !.obstacle.unchangedTicks = unchangedTickLimit - 1])
            ELSE s1

\* ObstacleHandler.checkMovement.  `moving` is what pathfinder.isMoving()
\* answers, `still` whether distanceSquared < 0.05.
checkMovement(s, moving, still) ==
  IF ~moving \/ ~s.entity
    THEN [s EXCEPT !.obstacle.lastPosition = FALSE, !.obstacle.unchangedTicks = 0,
                   !.lastOp.sample = "idle"]
  ELSE IF ~s.obstacle.lastPosition
    THEN [s EXCEPT !.obstacle.lastPosition = TRUE, !.lastOp.sample = "first"]
  ELSE LET ticks == IF still THEN s.obstacle.unchangedTicks + 1 ELSE 0
           s1 == [s EXCEPT !.obstacle.unchangedTicks = ticks,
                           !.lastOp.sample = IF still THEN "still" ELSE "moved"]
       IN IF ticks >= unchangedTickLimit
            THEN onStuck([s1 EXCEPT !.obstacle.unchangedTicks = 0])
            ELSE s1

\* --------------------------------------------------- PathfinderController
\* PathfinderController.stop
controllerStop(s) ==
  IF ~s.initialized THEN s ELSE stopCurrentGoal(s)

\* PathfinderController.destroy, and BotManager dropping the controller
destroy(s) ==
  [obstacleStop(controllerStop(s)) EXCEPT !.initialized = FALSE,
                                          !.solverGoal = NoGoal,
                                          !.status = IdleStatus]

\* PathfinderController.initialize, run by the 'spawn' listener of setupMovement
initialize(s) ==
  IF s.initialized THEN s ELSE [obstacleStart(s) EXCEPT !.initialized = TRUE]

\* Whether the solver has a goal to move to: one of an attempt that has not
\* settled, or a follow goal.  pathfinder.isMoving() is false without one.
SolverActive(s) ==
  /\ s.solverGoal /= NoGoal
  /\ s.goals[s.solverGoal].st \in {"pending", "follow"}

\* PathfinderController.getStatus through BotManager.getMovementStatus
getMovementStatus(s) == IF s.mcExists THEN s.status ELSE IdleStatus

\* BotManager.isReady
isReady(s) == s.bot /\ s.entity

\* ------------------------------------------------------------ AuthHandler
\* What handleChatMessage tests of an inbound line: whether it matches one
\* of successPatterns, /register/i, one of registrationPatterns, one of
\* loginPatterns.  /register/i is itself the first registration pattern.
Features == {"success", "register", "registration", "login"}
Lines == {l \in SUBSET Features : "register" \in l => "registration" \in l}

\* No chat line was delivered
NoLine == {"none"}

SeqIds == 1..MaxSeqs

\* The length of `commands` in attemptRegistration and in attemptLogin
Commands(kind) == IF kind = "registration" THEN 4 ELSE 2

\* No attemptRegistration / attemptLogin invocation in this slot
FreeSeq == [pc |-> "free", kind |-> "none", sent |-> 0]

\* No AuthHandler.  `lastAttempt` is kept relative to the clock: "null",
\* "short" (less than minAttemptIntervalMs ago) or "long".  `emitted` is the
\* event emitted by the last step of the handler, `timeoutEmits` the number
\* of auth_timeout events it has emitted, `submitted` the number of
\* bot.chat(command) calls its attempt sequences have made.
NoAuth ==
  [handler |-> FALSE, listening |-> FALSE, registered |-> FALSE,
   loggedIn |-> FALSE, attempts |-> 0, lastAttempt |-> "null", submitted |-> 0,
   seqs |-> [i \in SeqIds |-> FreeSeq], authCheckTimer |-> FALSE,
   timeoutPending |-> FALSE, emitted |-> "none", timeoutEmits |-> 0]

\* new AuthHandler(bot): the constructor registers its listeners on the link
NewAuth == [NoAuth EXCEPT !.handler = TRUE, !.listening = TRUE]

\* AuthHandler.stopAuthCheck
stopAuthCheck(s) == [s EXCEPT !.auth.authCheckTimer = FALSE]

\* AuthHandler.startAuthCheck, run by the once('spawn') listener
startAuthCheck(s) ==
  [stopAuthCheck(s) EXCEPT !.auth.authCheckTimer = TRUE,
                           !.auth.timeoutPending = TRUE]

\* AuthHandler.destroy followed by `this.authHandler = null`
destroyAuth(s) == [stopAuthCheck(s) EXCEPT !.auth.handler = FALSE]

\* canAttemptNow without the test of the elapsed time
canAttemptNow_NoInterval(s) == TRUE

\* AuthHandler.canAttemptNow
canAttemptNow(s) == s.auth.lastAttempt /= "short"

HasFreeSeq(s) == \E i \in SeqIds : s.auth.seqs[i].pc = "free"

NewSeqId(s) ==
  IF ~HasFreeSeq(s) THEN 1
  ELSE CHOOSE i \in SeqIds :
         /\ s.auth.seqs[i].pc = "free"
         /\ \A j \in SeqIds : j < i => s.auth.seqs[j].pc /= "free"

\* An attempt sequence up to its first await, delay(1000)
startSequence(s, kind) ==
  IF HasFreeSeq(s)
    THEN [s EXCEPT !.auth.seqs[NewSeqId(s)] = [pc |-> "delay", kind |-> kind, sent |-> 0]]
    ELSE [s EXCEPT !.overflow = TRUE]

\* AuthHandler.attemptRegistration up to its first await
attemptRegistration(s) ==
  IF ~s.autoRegister
    THEN [s EXCEPT !.auth.emitted = "auth_required"]
    ELSE startSequence(s, "registration")

\* AuthHandler.attemptLogin up to its first await
attemptLogin(s) == startSequence(s, "login")

\* handleChatMessage that assigns loggedIn from every line
handleChatMessage_Reclassify(s, line) ==
  IF "success" \in line
    THEN stopAuthCheck([s EXCEPT !.auth.loggedIn = TRUE,
                                 !.auth.registered = @ \/ "register" \in line,
                                 !.auth.emitted = "auth_success"])
  ELSE IF "registration" \in line /\ ~s.auth.registered
    THEN IF ~canAttemptNow(s) THEN s
         ELSE attemptRegistration([s EXCEPT !.auth.loggedIn = FALSE])
  ELSE IF "login" \in line
    THEN IF ~canAttemptNow(s) THEN s
         ELSE attemptLogin([s EXCEPT !.auth.loggedIn = FALSE])
  ELSE s

\* handleChatMessage without the early return when loggedIn is set
handleChatMessage_NoLoggedInCheck(s, line) ==
  IF "success" \in line
    THEN stopAuthCheck([s EXCEPT !.auth.loggedIn = TRUE,
                                 !.auth.registered = @ \/ "register" \in line,
                                 !.auth.emitted = "auth_success"])
  ELSE IF "registration" \in line /\ ~s.auth.registered
    THEN IF ~canAttemptNow(s) THEN s ELSE attemptRegistration(s)
  ELSE IF "login" \in line
    THEN IF ~canAttemptNow(s) THEN s ELSE attemptLogin(s)
  ELSE s

\* handleChatMessage that tests the login patterns before the registration
\* patterns
handleChatMessage_LoginFirst(s, line) ==
  IF "success" \in line
    THEN stopAuthCheck([s EXCEPT !.auth.loggedIn = TRUE,
                                 !.auth.registered = @ \/ "register" \in line,
                                 !.auth.emitted = "auth_success"])
  ELSE IF s.auth.loggedIn THEN s
  ELSE IF "login" \in line
    THEN IF ~canAttemptNow(s) THEN s ELSE attemptLogin(s)
  ELSE IF "registration" \in line /\ ~s.auth.registered
    THEN IF ~canAttemptNow(s) THEN s ELSE attemptRegistration(s)
  ELSE s

\* AuthHandler.handleChatMessage
handleChatMessage(s, line) ==
  IF "success" \in line
    THEN stopAuthCheck([s EXCEPT !.auth.loggedIn = TRUE,
                                 !.auth.registered = @ \/ "register" \in line,
                                 !.auth.emitted = "auth_success"])
  ELSE IF s.auth.loggedIn THEN s
  ELSE IF "registration" \in line /\ ~s.auth.registered
    THEN IF ~canAttemptNow(s) THEN s ELSE attemptRegistration(s)
  ELSE IF "login" \in line
    THEN IF ~canAttemptNow(s) THEN s ELSE attemptLogin(s)
  ELSE s

\* The body of the loop over `commands` up to delay(2000): one submission
submit(s, i) ==
  IF s.auth.attempts >= MaxAttempts
    THEN [s EXCEPT !.overflow = TRUE]
    ELSE [s EXCEPT !.auth.submitted = @ + 1,
                   !.auth.attempts = @ + 1,
                   !.auth.lastAttempt = "short",
                   !.auth.seqs[i].pc = "sent",
                   !.auth.seqs[i].sent = @ + 1]

\* attemptRegistration / attemptLogin resumed after a delay
attemptResume(s, i) ==
  LET q == s.auth.seqs[i]
  IN IF q.pc = "delay" THEN submit(s, i)
     ELSE IF s.auth.loggedIn
       THEN [s EXCEPT !.auth.seqs[i] = FreeSeq,
                      !.auth.registered = @ \/ q.kind = "registration"]
     ELSE IF q.sent < Commands(q.kind) THEN submit(s, i)
     ELSE [s EXCEPT !.auth.seqs[i] = FreeSeq, !.auth.emitted = "auth_required"]

\* The setInterval callback of startAuthCheck
authCheckTick(s) == IF ~s.auth.loggedIn THEN s ELSE stopAuthCheck(s)

\* The setTimeout callback without the test of loggedIn
authTimeoutFired_NoLoggedInCheck(s) ==
  stopAuthCheck([s EXCEPT !.auth.timeoutPending = FALSE,
                          !.auth.emitted = "auth_timeout",
                          !.auth.timeoutEmits = @ + 1])

\* The setTimeout callback of startAuthCheck
authTimeoutFired(s) ==
  LET s1 == [s EXCEPT !.auth.timeoutPending = FALSE]
      s2 == IF ~s1.auth.loggedIn
              THEN [s1 EXCEPT !.auth.emitted = "auth_timeout",
                              !.auth.timeoutEmits = @ + 1]
              ELSE s1
  IN stopAuthCheck(s2)

\* ------------------------------------------------- connection lifecycle
NoReleased == [ending |-> FALSE, listening |-> FALSE, connecting |-> FALSE]

\* bot.quit() followed by `this.bot = null`: the link is released; unless it
\* had already ended it will emit 'end'.  `listening` tells whether the
\* manager's listeners were left on it.  The 30 s timer of a connect() that
\* has not settled is not cleared: `connecting` tells that one is scheduled.
releaseLink(s, listening) ==
  [s EXCEPT !.bot = FALSE, !.entity = FALSE, !.linkState = "none",
            !.linkKicked = FALSE, !.connectState = "none",
            !.auth.listening = @ /\ listening,
            !.released =
               [ending |-> IF s.linkState = "open" THEN TRUE ELSE @.ending,
                listening |-> IF s.linkState = "open" THEN listening ELSE @.listening,
                connecting |-> @.connecting \/ s.connectState = "pending"]]

\* disconnect without bot.removeAllListeners()
disconnect_KeepListeners(s) ==
  LET s1 == [s EXCEPT !.isShuttingDown = TRUE]
      s2 == IF s1.reconnectTimer
              THEN [s1 EXCEPT !.reconnectTimer = FALSE, !.timersLive = @ - 1,
                              !.delayMs = 0]
              ELSE s1
      s3 == IF s2.mcExists THEN [destroy(s2) EXCEPT !.mcExists = FALSE] ELSE s2
      s3a == IF s3.auth.handler THEN destroyAuth(s3) ELSE s3
      s4 == IF s3a.bot THEN releaseLink(s3a, TRUE) ELSE s3a
  IN [s4 EXCEPT !.isShuttingDown = FALSE]

\* BotManager.disconnect.  It contains no await on an external promise, so
\* it runs to completion in one step.
disconnect(s) ==
  LET s1 == [s EXCEPT !.isShuttingDown = TRUE]
      s2 == IF s1.reconnectTimer
              THEN [s1 EXCEPT !.reconnectTimer = FALSE, !.timersLive = @ - 1,
                              !.delayMs = 0]
              ELSE s1
      s3 == IF s2.mcExists THEN [destroy(s2) EXCEPT !.mcExists = FALSE] ELSE s2
      s3a == IF s3.auth.handler THEN destroyAuth(s3) ELSE s3
      s4 == IF s3a.bot THEN releaseLink(s3a, FALSE) ELSE s3a
  IN [s4 EXCEPT !.isShuttingDown = FALSE]

\* connect without the disconnect() of lines 71-74
connect_NoDisconnect(s) ==
  [s EXCEPT !.isShuttingDown = FALSE,
            !.bot = TRUE,
            !.entity = FALSE,
            !.linkState = "open",
            !.linkKicked = FALSE,
            !.linksCreated = @ + 1,
            !.mcExists = TRUE,
            !.initialized = FALSE,
            !.solverGoal = NoGoal,
            !.currentGoal = NoGoal,
            !.currentGoalDescription = NoDescription,
            !.currentGoalDynamic = FALSE,
            !.status = IdleStatus,
            !.connectState = "pending",
            !.auth = NewAuth,
            !.termSchedules = 0,
            !.termAttempts = 0,
            !.termExhausted = 0]

\* BotManager.connect up to the promise it returns
connect(s) ==
  LET s1 == IF s.bot THEN disconnect(s) ELSE s
  IN [s1 EXCEPT !.isShuttingDown = FALSE,
                !.bot = TRUE,
                !.entity = FALSE,
                !.linkState = "open",
                !.linkKicked = FALSE,
                !.linksCreated = @ + 1,
                !.mcExists = TRUE,
                !.initialized = FALSE,
                !.solverGoal = NoGoal,
                !.currentGoal = NoGoal,
                !.currentGoalDescription = NoDescription,
                !.currentGoalDynamic = FALSE,
                !.status = IdleStatus,
                !.connectState = "pending",
                !.auth = NewAuth,
                !.termSchedules = 0,
                !.termAttempts = 0,
                !.termExhausted = 0]

\* Math.min(a, b) of two integers
MathMin(a, b) == IF a <= b THEN a ELSE b

\* reconnectDelay without the cap
reconnectDelay_NoCap(base, n) == base * 2 ^ (n - 1)

\* delayMs of handleReconnect when this.reconnectAttempts is n
\* (bot-manager.ts:316-319)
reconnectDelay(base, n) == MathMin(base * 2 ^ (n - 1), capDelayMs)

\* handleReconnect without the pending-timer check
handleReconnect_NoTimerCheck(s) ==
  IF s.isShuttingDown THEN s
  ELSE IF s.reconnectAttempts >= maxReconnectAttempts
    THEN [s EXCEPT !.termExhausted = @ + 1]
  ELSE [s EXCEPT !.reconnectAttempts = @ + 1,
                 !.termAttempts = @ + 1,
                 !.reconnectTimer = TRUE,
                 !.delayMs = reconnectDelay(s.reconnectDelayMs,
                                            s.reconnectAttempts + 1),
                 !.timersLive = @ + 1,
                 !.termSchedules = @ + 1]

\* BotManager.handleReconnect under config.advanced.maxReconnectAttempts = budget
handleReconnectWith(s, budget) ==
  IF s.isShuttingDown THEN s
  ELSE IF s.reconnectTimer THEN s
  ELSE IF s.reconnectAttempts >= budget
    THEN [s EXCEPT !.termExhausted = @ + 1]
  ELSE [s EXCEPT !.reconnectAttempts = @ + 1,
                 !.termAttempts = @ + 1,
                 !.reconnectTimer = TRUE,
                 !.delayMs = reconnectDelay(s.reconnectDelayMs,
                                            s.reconnectAttempts + 1),
                 !.timersLive = @ + 1,
                 !.termSchedules = @ + 1]

\* BotManager.handleReconnect
handleReconnect(s) == handleReconnectWith(s, maxReconnectAttempts)

\* The setTimeout callback of handleReconnect
reconnectTimerFired(s) ==
  connect([s EXCEPT !.reconnectTimer = FALSE, !.timersLive = @ - 1,
                    !.delayMs = 0])

\* onSpawn without `this.reconnectAttempts = 0`
onSpawn_NoReset(s) ==
  IF s.connectState = "pending" THEN [s EXCEPT !.connectState = "resolved"] ELSE s

\* onSpawn of connect(): the first 'spawn' of the link settles the promise
onSpawn(s) ==
  IF s.connectState = "pending"
    THEN [s EXCEPT !.reconnectAttempts = 0, !.connectState = "resolved"]
    ELSE s

\* onError without cleanup(): the listener stays and rejects again
onError_NoCleanup(s) ==
  IF s.connectState \in {"pending", "resolved"}
    THEN [s EXCEPT !.connectState = "rejected"]
    ELSE s

\* onError of connect(): the first 'error' of the link rejects the promise
onError(s) ==
  IF s.connectState = "pending" THEN [s EXCEPT !.connectState = "rejected"] ELSE s

\* ------------------------------------------------ BotManager: movement API
\* The precondition checks shared by moveTo, followPlayer and mineArea
readyError(s) ==
  IF ~isReady(s) THEN "Bot is not ready"
  ELSE IF ~s.mcExists THEN "Movement controller is unavailable"
  ELSE IF ~s.initialized THEN "Movement controller is not initialized yet"
  ELSE "none"

\* PathfinderController.goTo: goNear when a positive range is given, else goToBlock
gotoDescription(target, range) ==
  IF range > 0
    THEN [kind |-> "goNear", target |-> target, range |-> range]
    ELSE [kind |-> "goto", target |-> target, range |-> 0]

\* BotManager.moveTo up to its await, once the precondition checks passed
moveToStart(s, target, range, owner) ==
  executeGotoStart(s, gotoDescription(target, range), owner)

\* stopMovement without the increment of the stop counter
stopMovement_NoIncrement(s) ==
  LET s1 == [s EXCEPT !.abortMining = TRUE]
  IN IF s1.mcExists THEN controllerStop(s1) ELSE s1

\* BotManager.stopMovement
stopMovement(s) ==
  LET s1 == [s EXCEPT !.stopSignal = @ + 1,
                      !.abortMining = TRUE,
                      !.tasks = [t \in TaskIds |->
                                   IF s.tasks[t].pc \in RunningPcs
                                     THEN [s.tasks[t] EXCEPT !.stopped = TRUE]
                                     ELSE s.tasks[t]]]
  IN IF s1.mcExists THEN controllerStop(s1) ELSE s1

\* BotManager.getStopSignal
getStopSignal(s) == s.stopSignal

\* BotManager.wasStoppedAfter
wasStoppedAfter(s, signal) == s.stopSignal /= signal

\* -------------------------------------------------- BotManager: mineArea
HasFreeTask(s) == \E t \in TaskIds : s.tasks[t].pc = "free"

NewTaskId(s) ==
  IF ~HasFreeTask(s) THEN 1
  ELSE CHOOSE t \in TaskIds :
         /\ s.tasks[t].pc = "free"
         /\ \A u \in TaskIds : u < t => s.tasks[u].pc /= "free"

\* findNextBlockInArea without the tests of ignoredBlocks
Eligible_NoIgnored(s, t) ==
  IF ~(s.bot /\ s.entity) THEN {}
  ELSE {c \in Cells : s.world[c]}

\* BotManager.findNextBlockInArea: the diggable cells of the area that are not
\* ignored, as the current link reports them
Eligible(s, t) ==
  IF ~(s.bot /\ s.entity) THEN {}
  ELSE {c \in Cells : s.world[c] /\ c \notin s.tasks[t].ignoredBlocks}

\* The block findNextBlockInArea returns: `seen` is the first match of
\* bot.findBlocks that passes the re-check, NoCell when the scan from the
\* bot's position reaches no eligible cell.
findNextBlockInArea(s, t, seen) ==
  IF seen \in Eligible(s, t) THEN seen ELSE NoCell

\* mineArea that clears its flags before `return` instead of in `finally`
mineAreaExit_NoFinally(s, t, how) ==
  [s EXCEPT !.miningInProgress = IF how = "returned" THEN FALSE ELSE @,
            !.abortMining = IF how = "returned" THEN FALSE ELSE @,
            !.tasks[t] = [@ EXCEPT !.pc = how, !.cell = NoCell,
                                   !.ignoredBlocks = {}, !.decided = {},
                                   !.shouldRescanAfterReposition = FALSE,
                                   !.hovers = 0]]

\* The finally block of mineArea, after `return {minedBlocks, skippedBlocks}`
\* (how = "returned") or while an error propagates (how = "failed")
mineAreaExit(s, t, how) ==
  [s EXCEPT !.miningInProgress = FALSE,
            !.abortMining = FALSE,
            !.tasks[t] = [@ EXCEPT !.pc = how, !.cell = NoCell,
                                   !.ignoredBlocks = {}, !.decided = {},
                                   !.shouldRescanAfterReposition = FALSE,
                                   !.hovers = 0]]

\* skippedBlocks += 1; ignoredBlocks.add(blockKey(targetBlock.position))
skipBlock(s, t) ==
  [s EXCEPT !.tasks[t] = [@ EXCEPT !.skippedBlocks = @ + 1,
                                   !.ignoredBlocks = @ \cup {s.tasks[t].cell},
                                   !.decided = @ \cup {s.tasks[t].cell}]]

\* countMined without `minedBlocks += 1`
countMined_NoIncrement(s, t) ==
  [s EXCEPT !.tasks[t].decided = @ \cup {s.tasks[t].cell}]

\* minedBlocks += 1
countMined(s, t) ==
  [s EXCEPT !.tasks[t] = [@ EXCEPT !.minedBlocks = IF @ < MaxMined THEN @ + 1 ELSE @,
                                   !.decided = @ \cup {s.tasks[t].cell}]]

\* The branch of the loop taken when the scan found nothing and the rescan is
\* armed, without `shouldRescanAfterReposition = false`
hoverReposition_KeepRescan(s, t) ==
  LET s1 == [s EXCEPT !.tasks[t].cell = NoCell,
                      !.tasks[t].hovers = @ + 1]
  IN IF readyError(s1) /= "none"
       THEN mineAreaExit(s1, t, "failed")
       ELSE [moveToStart(s1, "center", 3, t) EXCEPT !.tasks[t].pc = "hover"]

\* The branch of the loop taken when the scan found nothing and the rescan is
\* armed: the rescan is disarmed and moveTo(center) is awaited.  `hovers`
\* counts these moves since the last cell was found.
hoverReposition(s, t) ==
  LET s1 == [s EXCEPT !.tasks[t].shouldRescanAfterReposition = FALSE,
                      !.tasks[t].cell = NoCell,
                      !.tasks[t].hovers = @ + 1]
  IN IF readyError(s1) /= "none"
       THEN mineAreaExit(s1, t, "failed")
       ELSE [moveToStart(s1, "center", 3, t) EXCEPT !.tasks[t].pc = "hover"]

\* The while loop of mineArea from its top to the next await.  A moveTo that
\* throws before awaiting (bot not ready, controller gone) is caught for a
\* cell and the loop goes on at once; for the hover point it ends the task.
RECURSIVE mineAreaLoop(_, _, _)
mineAreaLoop(s, t, seen) ==
  IF s.abortMining THEN mineAreaExit(s, t, "returned")
  ELSE
    LET targetBlock == findNextBlockInArea(s, t, seen)
    IN IF targetBlock = NoCell
         THEN IF ~s.tasks[t].shouldRescanAfterReposition
                THEN mineAreaExit([s EXCEPT !.tasks[t].unseen = Eligible(s, t) /= {}],
                                  t, "returned")
                ELSE hoverReposition(s, t)
         ELSE LET s1 == [s EXCEPT !.tasks[t].shouldRescanAfterReposition = TRUE,
                                  !.tasks[t].hovers = 0,
                                  !.tasks[t].cell = targetBlock,
                                  !.tasks[t].revisited =
                                     @ \/ targetBlock \in s.tasks[t].decided]
              IN IF readyError(s1) /= "none"
                   THEN LET s2 == skipBlock(s1, t)
                            rest == Eligible(s2, t)
                        IN mineAreaLoop(s2, t,
                             IF rest = {} THEN NoCell ELSE CHOOSE c \in rest : TRUE)
                   ELSE [moveToStart(s1, targetBlock, 2, t) EXCEPT !.tasks[t].pc = "moveCell"]

\* mineArea without the catch block around mineBlock: the error propagates
mineBlockCaught_Rethrow(s, t, seen) == mineAreaExit(s, t, "failed")

\* The catch block around mineBlock in mineArea
mineBlockCaught(s, t, seen) ==
  IF s.abortMining
    THEN mineAreaExit(s, t, "returned")
    ELSE mineAreaLoop(skipBlock(s, t), t, seen)

\* mineBlock returned false: the cell is skipped and ignored
mineBlockFalse(s, t, seen) == mineAreaLoop(skipBlock(s, t), t, seen)

\* mineBlock after equipBestToolForBlock: canDigBlock, then lookAt is awaited
mineBlockAfterEquip(s, t, canDig, seen) ==
  IF ~s.bot THEN mineBlockCaught(s, t, seen)
  ELSE IF ~canDig THEN mineBlockFalse(s, t, seen)
  ELSE [s EXCEPT !.tasks[t].pc = "lookAt"]

\* mineBlock after moveTo resolved: blockAt, isDiggableBlock, then
\* equipBestToolForBlock, which awaits bot.equip only when a better tool is
\* not already held (needEquip)
mineBlockAfterMove(s, t, needEquip, canDig, seen) ==
  IF ~s.bot THEN mineBlockCaught(s, t, seen)
  ELSE IF ~s.world[s.tasks[t].cell] THEN mineBlockFalse(s, t, seen)
  ELSE IF needEquip THEN [s EXCEPT !.tasks[t].pc = "equip"]
  ELSE mineBlockAfterEquip(s, t, canDig, seen)

\* mineBlock after lookAt resolved: bot.dig is awaited
mineBlockAfterLook(s, t, seen) ==
  IF ~s.bot THEN mineBlockCaught(s, t, seen)
  ELSE [s EXCEPT !.tasks[t].pc = "dig"]

\* mineBlock after bot.dig resolved: the block is gone and the cell counts as mined
mineBlockAfterDig(s, t, seen) ==
  mineAreaLoop([countMined(s, t) EXCEPT !.world[s.tasks[t].cell] = FALSE], t, seen)

\* mineArea resumed after the moveTo it awaited settled
mineAreaAfterMove(s, t, ok, needEquip, canDig, seen) ==
  IF s.tasks[t].pc = "hover"
    THEN IF ok THEN mineAreaLoop(s, t, seen) ELSE mineAreaExit(s, t, "failed")
    ELSE IF ok THEN mineBlockAfterMove(s, t, needEquip, canDig, seen)
               ELSE mineBlockCaught(s, t, seen)

\* mineAreaStart without `this.abortMining = false`
mineAreaStart_KeepAbort(s, seen) ==
  LET t == NewTaskId(s)
      s1 == [s EXCEPT !.miningInProgress = TRUE]
      s2 == controllerStop(s1)
      s3 == [s2 EXCEPT !.tasks[t] = [FreeTask EXCEPT !.pc = "start",
                                                     !.shouldRescanAfterReposition = TRUE]]
  IN IF HasFreeTask(s) THEN mineAreaLoop(s3, t, seen) ELSE Overflow(s)

\* mineArea after its precondition checks: the task starts
mineAreaStart(s, seen) ==
  LET t == NewTaskId(s)
      s1 == [s EXCEPT !.miningInProgress = TRUE, !.abortMining = FALSE]
      s2 == controllerStop(s1)
      s3 == [s2 EXCEPT !.tasks[t] = [FreeTask EXCEPT !.pc = "start",
                                                     !.shouldRescanAfterReposition = TRUE]]
  IN IF HasFreeTask(s) THEN mineAreaLoop(s3, t, seen) ELSE Overflow(s)

\* mineAreaError without the miningInProgress check
mineAreaError_NoRunningCheck(s) == readyError(s)

\* The error mineArea throws before starting, "none" when it starts
mineAreaError(s) ==
  IF readyError(s) /= "none" THEN readyError(s)
  ELSE IF s.miningInProgress THEN "A mining task is already running"
  ELSE "none"

\* BotManager.mineArea up to its first await
mineArea(s, seen) ==
  IF mineAreaError(s) /= "none" THEN s ELSE mineAreaStart(s, seen)

\* ------------------------------------------- LLMAgent.processMessage
\* processMessage returns: only the result and what was observed are kept
llmReturn(s, result) ==
  [s EXCEPT !.llm = [IdleLLM EXCEPT !.pc = "done", !.result = result,
                                    !.stopSignalAtStart = s.llm.stopSignalAtStart,
                                    !.stopCallsAtStart = s.llm.stopCallsAtStart,
                                    !.stoppedMidRound = s.llm.stoppedMidRound,
                                    !.issuedAfterStop = s.llm.issuedAfterStop]]

\* After the tool calls of a round: the stop check, then the next round
llmAfterTools(s) ==
  IF wasStoppedAfter(s, s.llm.stopSignalAtStart) THEN llmReturn(s, "")
  ELSE IF s.llm.round + 1 < maxRounds
    THEN [s EXCEPT !.llm.pc = "awaitModel", !.llm.round = @ + 1]
    ELSE llmReturn(s, "I got a bit confused there")

\* executeTool('stop_movement')
stopByTool(s) ==
  IF s.stopCalls >= MaxStops THEN Overflow(s)
  ELSE [stopMovement(s) EXCEPT !.stopCalls = @ + 1]

\* The for loop over assistantMessage.tool_calls, from the next tool call to
\* the next await on a movement or a mining task.  A tool that throws yields
\* an 'Error: ...' result and the loop goes on.
RECURSIVE llmRunTools(_, _, _)
llmRunTools(s, visible, seen) ==
  IF s.overflow THEN s
  ELSE IF s.llm.calls = << >> THEN llmAfterTools(s)
  ELSE
    LET tool == Head(s.llm.calls)
        s1 == [s EXCEPT !.llm.calls = Tail(@),
                        !.llm.pc = "tools",
                        !.llm.awaitKind = "none",
                        !.llm.awaitId = 0,
                        !.llm.issuedAfterStop = @ \/ s.llm.stoppedMidRound]
    IN CASE tool = "move_to" ->
              IF readyError(s1) /= "none" THEN llmRunTools(s1, visible, seen)
              ELSE [moveToStart(s1, "x", 0, LLMOwner) EXCEPT
                       !.llm.pc = "awaitTool", !.llm.awaitKind = "goal",
                       !.llm.awaitId = NewGoalId(s1)]
         [] tool = "follow_player" ->
              IF readyError(s1) /= "none" \/ ~visible THEN llmRunTools(s1, visible, seen)
              ELSE llmRunTools(followEntity(s1, 3), visible, seen)
         [] tool = "mine_area" ->
              IF mineAreaError(s1) /= "none" THEN llmRunTools(s1, visible, seen)
              ELSE [mineAreaStart(s1, seen) EXCEPT
                       !.llm.pc = "awaitTool", !.llm.awaitKind = "task",
                       !.llm.awaitId = NewTaskId(s1)]
         [] tool = "stop_movement" -> llmRunTools(stopByTool(s1), visible, seen)
         [] OTHER -> llmRunTools(s1, visible, seen)

\* processMessage is resumed when the tool it awaits has settled.
llmWake(s, visible, seen) ==
  IF /\ s.llm.pc = "awaitTool"
     /\ \/ s.llm.awaitKind = "goal" /\ s.goals[s.llm.awaitId].st = "done"
        \/ s.llm.awaitKind = "task" /\ s.tasks[s.llm.awaitId].pc \in {"returned", "failed"}
    THEN llmRunTools(s, visible, seen)
    ELSE s

\* processMessage up to its first await: the stop counter is captured
processMessage(s) ==
  [s EXCEPT !.llm = [IdleLLM EXCEPT !.pc = "awaitModel",
                                    !.stopSignalAtStart = getStopSignal(s),
                                    !.stopCallsAtStart = s.stopCalls]]

\* processMessage after client.chat.completions.create settled
llmResponse(s, kind, calls, visible, seen) ==
  CASE kind = "error" -> llmReturn(s, "error")
    [] kind = "none" -> llmReturn(s, "Something went wrong")
    [] kind = "text" -> llmReturn(s, "text")
    [] OTHER -> llmRunTools([s EXCEPT !.llm.calls = calls], visible, seen)

Op(s, name, result) == [s EXCEPT !.lastOp.op = name, !.lastOp.result = result]

\* ---------------------------------------------------------------- actions
\* connect() called by the hosting mode (TerminalMode.start, testConnection)
ConnectCall ==
  /\ linksCreated < MaxLinks
  /\ Becomes(Op(connect(State), "connect", "pending"))

\* disconnect() called by the hosting mode
DisconnectCall ==
  /\ Becomes(Op(disconnect(State), "disconnect", "ok"))

\* The link receives the login packet: bot.entity becomes defined.
LinkLogin ==
  /\ bot /\ linkState = "open" /\ ~entity
  /\ Becomes(Op([State EXCEPT !.entity = TRUE], "event", "ok"))

\* The link emits 'spawn': the listeners of the AuthHandler, of
\* setupMovement and of connect() run.
LinkSpawn ==
  /\ bot /\ linkState = "open" /\ entity /\ ~initialized
  /\ LET s1 == IF auth.listening THEN startAuthCheck(State) ELSE State
     IN Becomes(Op(onSpawn(initialize(s1)), "event", "ok"))

\* The link emits 'error'.
LinkError ==
  /\ bot /\ linkState = "open"
  /\ Becomes(Op(onError(State), "event", "ok"))

\* The 30 s timer of connect() fires before 'spawn' and 'error'.
ConnectTimeout ==
  /\ bot /\ connectState = "pending"
  /\ Becomes(Op([State EXCEPT !.connectState = "rejected"], "event", "ok"))

\* The 30 s timer of a connect() whose link was released before it settled
\* fires: the promise is rejected; cleanup() finds none of its listeners.
ReleasedConnectTimeout ==
  /\ released.connecting
  /\ \E more \in BOOLEAN :
       Becomes(Op([State EXCEPT !.released.connecting = more], "event", "ok"))

\* The link emits 'kicked'.
LinkKicked ==
  /\ bot /\ linkState = "open" /\ ~linkKicked
  /\ Becomes(Op([handleReconnect(State) EXCEPT !.linkKicked = TRUE], "event", "ok"))

\* The link emits 'end'; it emits nothing afterwards.
LinkEnd ==
  /\ bot /\ linkState = "open"
  /\ Becomes(Op([handleReconnect(State) EXCEPT !.linkState = "ended"], "event", "ok"))

\* A link released by disconnect() emits the 'end' that quit caused.  The
\* 'end' listener of the manager runs only if it is still on that link.
ReleasedLinkEnd ==
  /\ released.ending
  /\ \E more \in BOOLEAN :
       LET s1 == [State EXCEPT !.released.ending = more]
       IN Becomes(Op(IF released.listening THEN handleReconnect(s1) ELSE s1,
                     "event", "ok"))

\* A scheduled reconnect timeout fires.
ReconnectTimerFire ==
  /\ timersLive > 0
  /\ linksCreated < MaxLinks
  /\ Becomes(Op(reconnectTimerFired(State), "event", "ok"))

\* ---------------------------------------------------- actions: AuthHandler
\* The state at the start of a step of the AuthHandler: nothing emitted yet
AuthStep == [State EXCEPT !.auth.emitted = "none"]

\* The link delivers a chat line: the 'message' listener runs.
AuthLine ==
  /\ bot /\ linkState = "open" /\ entity /\ auth.listening
  /\ \E line \in Lines :
       Becomes(Op(handleChatMessage(AuthStep, line), "message", "ok"))

\* The 'message' listener again, with the delivered line kept in lastOp.
ChatLine ==
  /\ bot /\ linkState = "open" /\ entity /\ auth.listening
  /\ \E line \in Lines :
       Becomes([Op(handleChatMessage(AuthStep, line), "message", "ok")
                  EXCEPT !.lastOp.line = line])

\* A delay(1000) or delay(2000) awaited by an attempt sequence is over.  The
\* delays are plain timers: nothing cancels them.
AuthDelayDone ==
  \E i \in SeqIds :
    /\ auth.seqs[i].pc /= "free"
    /\ Becomes(Op(attemptResume(AuthStep, i), "delay", "ok"))

\* minAttemptIntervalMs have passed since the last submission.  Timers fire
\* on time, so this is later than the delay(2000) that follows a submission.
AuthAge ==
  /\ auth.lastAttempt = "short"
  /\ \A i \in SeqIds : auth.seqs[i].pc /= "sent"
  /\ Becomes(Op([AuthStep EXCEPT !.auth.lastAttempt = "long"], "clock", "ok"))

\* The 5 s interval of startAuthCheck fires.
AuthCheckTick ==
  /\ auth.authCheckTimer
  /\ Becomes(Op(authCheckTick(AuthStep), "authCheck", "ok"))

\* The 60 s one-shot timer of startAuthCheck fires.
AuthTimeoutFire ==
  /\ auth.timeoutPending
  /\ Becomes(Op(authTimeoutFired(AuthStep), "authTimeout", "ok"))

\* --------------------------------------------- actions: movement and mining
\* The continuation of whoever awaits goal g: a mineArea task, or a caller
\* that only reports the outcome.
Resume(s, owner, ok, needEquip, canDig, seen) ==
  IF owner \in TaskIds /\ s.tasks[owner].pc \in {"hover", "moveCell"}
    THEN mineAreaAfterMove(s, owner, ok, needEquip, canDig, seen)
    ELSE s

Seen == Cells \cup {NoCell}

\* Inputs are drawn only where the handler reads them.
\* The inputs read by processMessage when the step resumes it:
Range(f) == {f[i] : i \in DOMAIN f}
WakeVisible == IF llm.pc = "awaitTool" /\ "follow_player" \in Range(llm.calls) THEN BOOLEAN ELSE {TRUE}
WakeSeen == IF llm.pc = "awaitTool" /\ "mine_area" \in Range(llm.calls) THEN Seen ELSE {NoCell}
\* the inputs read by the mineArea task that awaits goal g:
TaskBool(g) == IF goals[g].owner \in TaskIds THEN BOOLEAN ELSE {TRUE}
TaskSeen(g) == IF goals[g].owner \in TaskIds THEN Seen ELSE {NoCell}

\* moveTo(x, y, z) called by the console or the in-game control, without a range
MoveToCall ==
  /\ LET err == readyError(State)
     IN IF err /= "none"
          THEN Becomes(Op(State, "moveTo", err))
          ELSE Becomes(Op(moveToStart(State, "x", 0, 0), "moveTo", "pending"))

\* followPlayer(username) called by the console or the in-game control
FollowCall ==
  /\ LET err == readyError(State)
     IN \E visible \in BOOLEAN :
          IF err /= "none" THEN Becomes(Op(State, "followPlayer", err))
          ELSE IF ~visible THEN Becomes(Op(State, "followPlayer", "Player is not visible"))
          ELSE Becomes(Op(followEntity(State, 3), "followPlayer", "ok"))

\* stopMovement() called by the console or the in-game control
\* (llm.stoppedMidRound observes that it came while processMessage awaited
\* a tool call.)
StopCall ==
  /\ stopCalls < MaxStops
  /\ Becomes(Op([stopMovement(State) EXCEPT
                   !.stopCalls = @ + 1,
                   !.llm.stoppedMidRound = @ \/ llm.pc = "awaitTool"],
                "stopMovement", "ok"))

\* mineArea(from, to), a public method of BotManager, called by its user
MineAreaCall ==
  /\ \E seen \in Seen :
       Becomes(Op(mineArea(State, seen), "mineArea",
                  IF mineAreaError(State) /= "none" THEN mineAreaError(State) ELSE "pending"))

\* mineArea(from, to) called once the bot is ready; one invocation is followed.
ClearCall ==
  /\ readyError(State) = "none"
  /\ \A t \in TaskIds : tasks[t].pc = "free"
  /\ MineAreaCall

\* The solver resolves pathfinder.goto(g): it reached the goal it holds.
GotoResolve ==
  \E g \in GoalIds :
  \E needEquip \in TaskBool(g), canDig \in TaskBool(g), seen \in TaskSeen(g),
     visible \in WakeVisible, seen2 \in WakeSeen :
    /\ goals[g].st = "pending"
    /\ goals[g].gen = linksCreated /\ solverGoal = g
    /\ Becomes(Op(llmWake(Resume(executeGotoReached(State, g), goals[g].owner,
                                 TRUE, needEquip, canDig, seen), visible, seen2),
                  "event", "ok"))

\* The solver rejects pathfinder.goto(g): no path, or its goal was changed.
GotoReject ==
  \E g \in GoalIds :
  \E seen \in TaskSeen(g), visible \in WakeVisible, seen2 \in WakeSeen :
    /\ goals[g].st = "pending"
    /\ Becomes(Op(llmWake(Resume(executeGotoFailed(State, g, "error"), goals[g].owner,
                                 FALSE, FALSE, FALSE, seen), visible, seen2),
                  "event", "ok"))

\* The withTimeout timer of attempt g fires first.
GotoTimeout ==
  \E g \in GoalIds :
  \E seen \in TaskSeen(g), visible \in WakeVisible, seen2 \in WakeSeen :
    /\ goals[g].st = "pending"
    /\ Becomes(Op(llmWake(Resume(executeGotoFailed(State, g, "timeout"), goals[g].owner,
                                 FALSE, FALSE, FALSE, seen), visible, seen2),
                  "event", "ok"))

\* The interval of the ObstacleHandler fires: checkMovement takes a sample.
ObstacleTick ==
  /\ obstacle.monitorTimer
  /\ \E moving \in (IF SolverActive(State) THEN BOOLEAN ELSE {FALSE}) :
     \E still \in (IF moving /\ obstacle.lastPosition THEN BOOLEAN ELSE {TRUE}) :
       Becomes(Op(checkMovement(State, moving, still), "checkMovement", "ok"))

\* The solver settles pathfinder.goto(g) after the withTimeout timer of the
\* attempt has fired.
GotoLate ==
  \E g \in GoalIds :
    /\ goals[g].st = "done" /\ goals[g].late
    /\ Becomes(Op(withTimeoutLate(State, g), "event", "ok"))

\* The record of an attempt whose promise has settled is dropped: nothing
\* refers to the goal object any more.
ForgetGoal ==
  \E g \in GoalIds :
    /\ goals[g].st = "done"
    /\ Becomes([State EXCEPT !.goals[g] = FreeGoal])

\* bot.equip settles; a rejection is logged and swallowed.
EquipDone ==
  \E t \in TaskIds, canDig \in BOOLEAN, seen \in Seen, visible \in WakeVisible, seen2 \in WakeSeen :
    /\ tasks[t].pc = "equip"
    /\ Becomes(Op(llmWake(mineBlockAfterEquip(State, t, canDig, seen), visible, seen2),
                  "event", "ok"))

\* bot.lookAt settles.
LookDone ==
  \E t \in TaskIds, ok \in BOOLEAN, seen \in Seen, visible \in WakeVisible, seen2 \in WakeSeen :
    /\ tasks[t].pc = "lookAt"
    /\ Becomes(Op(llmWake(IF ok THEN mineBlockAfterLook(State, t, seen)
                                ELSE mineBlockCaught(State, t, seen), visible, seen2),
                  "event", "ok"))

\* bot.dig settles; stopDigging and a lost block make it reject.
DigDone ==
  \E t \in TaskIds, ok \in BOOLEAN, seen \in Seen, visible \in WakeVisible, seen2 \in WakeSeen :
    /\ tasks[t].pc = "dig"
    /\ Becomes(Op(llmWake(IF ok THEN mineBlockAfterDig(State, t, seen)
                                ELSE mineBlockCaught(State, t, seen), visible, seen2),
                  "event", "ok"))

\* The world changes a cell: a block falls or is placed into it, or is removed.
WorldChange ==
  \E c \in Cells :
    /\ bot
    /\ Becomes(Op([State EXCEPT !.world[c] = ~@], "event", "ok"))

\* processMessage(playerMessage, sender) called by the agent's host, at any
\* time.  One invocation is followed.
ProcessMessageCall ==
  /\ llm.pc = "idle"
  /\ Becomes(Op(processMessage(State), "processMessage", "pending"))

\* client.chat.completions.create settles without tool calls: it throws, or
\* answers with no choice or with a text.
LLMReply ==
  /\ llm.pc = "awaitModel"
  /\ llm.round < MaxResponses
  /\ \E kind \in {"error", "none", "text"} :
       Becomes(Op(llmResponse(State, kind, << >>, TRUE, NoCell), "event", "ok"))

\* client.chat.completions.create settles with tool calls
LLMToolCalls ==
  /\ llm.pc = "awaitModel"
  /\ llm.round < MaxResponses
  /\ \E calls \in ToolCalls :
     \E visible \in (IF "follow_player" \in Range(calls) THEN BOOLEAN ELSE {TRUE}),
        seen \in (IF "mine_area" \in Range(calls) THEN Seen ELSE {NoCell}) :
       Becomes(Op(llmResponse(State, "tools", calls, visible, seen), "event", "ok"))

\* The first connect() of the hosting mode
StartUp == linksCreated = 0 /\ ConnectCall

\* disconnect() while a link is held
Shutdown == bot /\ DisconnectCall

\* The fields of a new BotManager and its observations
InitOther ==
  /\ isShuttingDown = FALSE /\ mcExists = FALSE
  /\ miningInProgress = FALSE /\ abortMining = FALSE /\ stopSignal = 0
  /\ entity = FALSE /\ linkState = "none" /\ linkKicked = FALSE
  /\ linksCreated = 0 /\ connectState = "none"
  /\ released = NoReleased
  /\ auth = NoAuth
  /\ initialized = FALSE /\ solverGoal = NoGoal /\ currentGoal = NoGoal
  /\ currentGoalDescription = NoDescription /\ currentGoalDynamic = FALSE
  /\ status = IdleStatus
  /\ goals = [g \in GoalIds |-> FreeGoal]
  /\ tasks = [t \in TaskIds |-> FreeTask]
  /\ llm = IdleLLM
  /\ timersLive = 0 /\ termSchedules = 0 /\ termAttempts = 0 /\ termExhausted = 0
  /\ stopCalls = 0
  /\ lastOp = [op |-> "new", result |-> "ok", stopped |-> FALSE, stuck |-> FALSE,
               retried |-> 0, retriedDynamic |-> FALSE, sample |-> "none",
               line |-> NoLine]
  /\ obstacle = NoObstacle

\* A new BotManager that was asked for no area
InitRest ==
  /\ bot = FALSE /\ reconnectTimer = FALSE /\ delayMs = 0
  /\ area = NoArea
  /\ InitOther

\* No reconnect attempt is counted yet, and RECONNECT_DELAY_MS is left at
\* its default
InitFields ==
  InitRest /\ reconnectAttempts = 0 /\ reconnectDelayMs = DefaultReconnectDelayMs

\* AUTO_REGISTER is left at its default (config-loader.ts:86)
InitConn == InitFields /\ world \in [Cells -> BOOLEAN] /\ autoRegister = TRUE

\* The world of the movement runs has nothing to dig
InitStuck == InitFields /\ world = [c \in Cells |-> FALSE] /\ autoRegister = TRUE

\* The connection lifecycle, with stop requests.
NextConn ==
  \/ ConnectCall
  \/ DisconnectCall
  \/ StopCall
  \/ LinkLogin
  \/ LinkSpawn
  \/ LinkError
  \/ ConnectTimeout
  \/ LinkKicked
  \/ LinkEnd
  \/ ReleasedLinkEnd
  \/ ReleasedConnectTimeout
  \/ ReconnectTimerFire

SpecConn == InitConn /\ [][NextConn]_vars

\* Area clearing over one link: mineArea calls, stop requests, shutdown.
Next ==
  \/ StartUp
  \/ LinkLogin
  \/ LinkSpawn
  \/ Shutdown
  \/ StopCall
  \/ MineAreaCall
  \/ GotoResolve
  \/ GotoReject
  \/ GotoTimeout
  \/ EquipDone
  \/ LookDone
  \/ DigDone
  \/ WorldChange

Init == InitConn

Spec == Init /\ [][Next]_vars

\* Area clearing in a world that keeps changing, for as long as it takes:
\* the records of settled attempts are eventually dropped.
NextClear ==
  \/ StartUp
  \/ LinkLogin
  \/ LinkSpawn
  \/ ClearCall
  \/ GotoResolve
  \/ GotoTimeout
  \/ EquipDone
  \/ LookDone
  \/ DigDone
  \/ WorldChange
  \/ ForgetGoal

SpecClear == Init /\ [][NextClear]_vars /\ WF_vars(ForgetGoal)

\* pathfinder.goto(g) resolves, and canDigBlock holds for the block reached.
GotoReached ==
  \E g \in GoalIds :
  \E needEquip \in TaskBool(g), seen \in TaskSeen(g) :
    /\ goals[g].st = "pending"
    /\ goals[g].gen = linksCreated /\ solverGoal = g
    /\ Becomes(Op(Resume(executeGotoReached(State, g), goals[g].owner,
                          TRUE, needEquip, TRUE, seen), "event", "ok"))

\* bot.equip settles, and canDigBlock holds.
EquipResolve ==
  \E t \in TaskIds, seen \in Seen :
    /\ tasks[t].pc = "equip"
    /\ Becomes(Op(mineBlockAfterEquip(State, t, TRUE, seen), "event", "ok"))

\* bot.lookAt resolves.
LookResolve ==
  \E t \in TaskIds, seen \in Seen :
    /\ tasks[t].pc = "lookAt"
    /\ Becomes(Op(mineBlockAfterLook(State, t, seen), "event", "ok"))

\* bot.dig resolves.
DigResolve ==
  \E t \in TaskIds, seen \in Seen :
    /\ tasks[t].pc = "dig"
    /\ Becomes(Op(mineBlockAfterDig(State, t, seen), "event", "ok"))

\* buildAreaBounds(from, to) and buildAreaBounds(to, from) are computed for
\* the corners of a mineArea call.
BuildAreaBounds ==
  /\ ~area.called
  /\ Becomes(Op([State EXCEPT !.area.called = TRUE,
                             !.area.bounds = buildAreaBounds(area.from, area.to),
                             !.area.swapped = buildAreaBounds(area.to, area.from)],
                "buildAreaBounds", "ok"))

\* The corners are those of any mineArea call
InitBounds ==
  /\ bot = FALSE /\ reconnectTimer = FALSE /\ delayMs = 0
  /\ \E from \in Corners, to \in Corners :
       area = [NoArea EXCEPT !.from = from, !.to = to]
  /\ InitOther
  /\ reconnectAttempts = 0 /\ reconnectDelayMs = DefaultReconnectDelayMs
  /\ world = [c \in Cells |-> FALSE] /\ autoRegister = TRUE

NextBounds == BuildAreaBounds

SpecBounds == InitBounds /\ [][NextBounds]_vars

\* Area clearing in a world that changes only by the bot's digging, where
\* every movement and every removal succeeds.  What a scan reaches is up to
\* the link: bot.findBlocks searches the loaded chunks within maxDistance of
\* the bot.
NextStatic ==
  \/ StartUp
  \/ LinkLogin
  \/ LinkSpawn
  \/ ClearCall
  \/ GotoReached
  \/ EquipResolve
  \/ LookResolve
  \/ DigResolve
  \/ ForgetGoal

SpecStatic == Init /\ [][NextStatic]_vars

\* Authentication over successive links: chat lines, attempt sequences and
\* the timers of the AuthHandler; AUTO_REGISTER is either value.
InitAuth ==
  InitFields /\ world = [c \in Cells |-> FALSE] /\ autoRegister \in BOOLEAN

NextAuth ==
  \/ ConnectCall
  \/ DisconnectCall
  \/ LinkLogin
  \/ LinkSpawn
  \/ AuthLine
  \/ AuthDelayDone
  \/ AuthAge
  \/ AuthCheckTick
  \/ AuthTimeoutFire

SpecAuth == InitAuth /\ [][NextAuth]_vars

\* The chat lines one link delivers and what the AuthHandler makes of them.
NextLines ==
  \/ ConnectCall
  \/ LinkLogin
  \/ LinkSpawn
  \/ ChatLine
  \/ AuthDelayDone
  \/ AuthAge

SpecLines == InitAuth /\ [][NextLines]_vars

\* Movement goals over one link: moveTo and followPlayer calls, stop requests.
NextMove ==
  \/ StartUp
  \/ LinkLogin
  \/ LinkSpawn
  \/ Shutdown
  \/ MoveToCall
  \/ FollowCall
  \/ StopCall
  \/ GotoResolve
  \/ GotoReject
  \/ GotoTimeout
  \/ GotoLate

SpecMove == Init /\ [][NextMove]_vars

\* Movement goals over one link with the stuck detection sampling.
NextStuck ==
  \/ StartUp
  \/ LinkLogin
  \/ LinkSpawn
  \/ Shutdown
  \/ MoveToCall
  \/ FollowCall
  \/ StopCall
  \/ GotoResolve
  \/ GotoReject
  \/ GotoTimeout
  \/ ObstacleTick
  \/ ForgetGoal

SpecStuck == InitStuck /\ [][NextStuck]_vars

\* Tool sequences of the LLM agent over one link, with stop requests.
NextLLM ==
  \/ StartUp
  \/ LinkLogin
  \/ LinkSpawn
  \/ Shutdown
  \/ StopCall
  \/ ProcessMessageCall
  \/ LLMReply
  \/ LLMToolCalls
  \/ GotoResolve
  \/ GotoReject
  \/ GotoTimeout
  \/ EquipDone
  \/ LookDone
  \/ DigDone

SpecLLM == Init /\ [][NextLLM]_vars

\* Automatic reconnection: the hosting mode connects once and every later
\* link is created by the reconnect timer.  The timers of the manager (the
\* reconnect timeout, the 30 s timeout of connect) fire when due; nothing
\* obliges the link to emit an event.
NextReconnect ==
  \/ StartUp
  \/ Shutdown
  \/ LinkLogin
  \/ LinkSpawn
  \/ LinkError
  \/ ConnectTimeout
  \/ LinkKicked
  \/ LinkEnd
  \/ ReconnectTimerFire

SpecReconnect ==
  /\ Init /\ [][NextReconnect]_vars
  /\ WF_vars(ReconnectTimerFire) /\ WF_vars(ConnectTimeout)

\* The link emits 'end' under a reconnect budget of DelayBudget attempts.
LinkEndBudget ==
  /\ bot /\ linkState = "open"
  /\ Becomes(Op([handleReconnectWith(State, DelayBudget)
                   EXCEPT !.linkState = "ended"], "event", "ok"))

\* Values of RECONNECT_DELAY_MS: validateConfig accepts the integers >= 0
\* (config-loader.ts:138-140)
DelayBases == {0, 1, 1000, 5000, 7500, 30000, 60000, 100000}

\* The manager after any number of failed attempts followed by a
\* disconnect(), which leaves reconnectAttempts as it is
InitDelay ==
  /\ InitRest /\ world = [c \in Cells |-> FALSE] /\ autoRegister = TRUE
  /\ reconnectDelayMs \in DelayBases
  /\ reconnectAttempts \in 0..DelayBudget

\* The reconnect schedule: every link ends before it spawns.
NextDelay ==
  \/ StartUp
  \/ LinkEndBudget
  \/ ReconnectTimerFire

SpecDelay == InitDelay /\ [][NextDelay]_vars

\* ------------------------------------------------------------ properties
\* The types of the state
TypeOK ==
  /\ bot \in BOOLEAN /\ entity \in BOOLEAN /\ mcExists \in BOOLEAN
  /\ reconnectAttempts \in 0..DelayBudget
  /\ reconnectDelayMs \in Nat /\ delayMs \in 0..capDelayMs
  /\ obstacle \in [monitorTimer : BOOLEAN, lastPosition : BOOLEAN,
                   unchangedTicks : 0..(unchangedTickLimit - 1)]
  /\ area.called \in BOOLEAN /\ area.from \in Corners /\ area.to \in Corners
  /\ reconnectTimer \in BOOLEAN /\ isShuttingDown \in BOOLEAN
  /\ miningInProgress \in BOOLEAN /\ abortMining \in BOOLEAN
  /\ stopSignal \in 0..MaxStops /\ stopCalls \in 0..MaxStops
  /\ linkState \in {"none", "open", "ended"} /\ linkKicked \in BOOLEAN
  /\ linksCreated \in 0..MaxLinks
  /\ connectState \in {"none", "pending", "resolved", "rejected"}
  /\ released \in [ending : BOOLEAN, listening : BOOLEAN, connecting : BOOLEAN]
  /\ autoRegister \in BOOLEAN
  /\ auth.handler \in BOOLEAN /\ auth.listening \in BOOLEAN
  /\ auth.registered \in BOOLEAN /\ auth.loggedIn \in BOOLEAN
  /\ auth.attempts \in 0..MaxAttempts
  /\ auth.lastAttempt \in {"null", "short", "long"}
  /\ \A i \in SeqIds : /\ auth.seqs[i].pc \in {"free", "delay", "sent"}
                        /\ auth.seqs[i].kind \in {"none", "registration", "login"}
                        /\ auth.seqs[i].sent \in 0..4
  /\ auth.authCheckTimer \in BOOLEAN /\ auth.timeoutPending \in BOOLEAN
  /\ auth.emitted \in {"none", "auth_success", "auth_required", "auth_timeout"}
  /\ auth.timeoutEmits \in 0..1
  /\ initialized \in BOOLEAN
  /\ solverGoal \in GoalIds \cup {NoGoal} /\ currentGoal \in GoalIds \cup {NoGoal}
  /\ currentGoalDynamic \in BOOLEAN
  /\ status.moving \in BOOLEAN
  /\ \A g \in GoalIds : goals[g].st \in {"free", "pending", "done", "follow"}
  /\ \A t \in TaskIds : tasks[t].pc \in RunningPcs \cup {"free", "returned", "failed"}
  /\ \A t \in TaskIds : tasks[t].minedBlocks \in 0..MaxMined
  /\ world \in [Cells -> BOOLEAN]
  /\ timersLive \in 0..1
  /\ llm.pc \in {"idle", "awaitModel", "awaitTool", "done"}
  /\ llm.round \in 0..(maxRounds - 1)
  /\ llm.stopSignalAtStart \in 0..MaxStops
  /\ llm.awaitKind \in {"none", "goal", "task"}

\* C1: a mineArea task during which stopMovement() was called ends by
\* returning its counts, never by failing with an error.
C1_StoppedTaskReturns ==
  \A t \in TaskIds : tasks[t].stopped => tasks[t].pc /= "failed"

RunningTasks == {t \in TaskIds : tasks[t].pc \in RunningPcs}

\* What a rejected mineArea call must leave alone: the mining flags, the
\* running task's counters and ignored set, and the movement goal
MiningUntouched ==
  /\ tasks' = tasks
  /\ miningInProgress' = miningInProgress /\ abortMining' = abortMining
  /\ solverGoal' = solverGoal /\ currentGoal' = currentGoal
  /\ currentGoalDescription' = currentGoalDescription
  /\ goals' = goals /\ status' = status

\* A step that is a mineArea call made while a task is running
CallWhileRunning == lastOp'.op = "mineArea" /\ lastOp' /= lastOp /\ RunningTasks /= {}

\* C2 as claimed: at most one task runs, and a mineArea call made while one
\* runs fails with the task-already-running error and changes nothing.
C2_AlreadyRunningAlways ==
  /\ [](Cardinality(RunningTasks) <= 1)
  /\ [][CallWhileRunning =>
          /\ lastOp'.result = "A mining task is already running"
          /\ MiningUntouched]_vars

\* C2 amended: at most one task runs; a mineArea call made while one runs
\* fails at once and changes nothing; its error is task-already-running when
\* the bot is ready and the movement controller initialized, and the error
\* of the failed readiness check otherwise.
C2_SingleTask ==
  /\ [](Cardinality(RunningTasks) <= 1)
  /\ [][CallWhileRunning =>
          /\ lastOp'.result = (IF readyError(State) = "none"
                                 THEN "A mining task is already running"
                                 ELSE readyError(State))
          /\ MiningUntouched]_vars

\* C2 witness: a call was rejected as already running while a task is in a move
C2_Witness ==
  /\ lastOp.op = "mineArea" /\ lastOp.result = "A mining task is already running"
  /\ \E t \in TaskIds : tasks[t].pc = "moveCell" /\ solverGoal /= NoGoal

\* C3: within a task, a cell whose outcome was decided (mined or skipped) is
\* never selected again by a later scan.
C3_NoRevisit ==
  \A t \in TaskIds : ~tasks[t].revisited

\* C4: every goToBlock/goNear attempt that is over has seen exactly one
\* terminal event (goal_reached, goal_failed or goal_stopped).
C4_OneTerminalEvent ==
  \A g \in GoalIds : goals[g].st = "done" => goals[g].events = 1

\* A step in which the pending attempt a is finalized while another goal is
\* the executor's current goal
SettlesSuperseded(a) ==
  /\ goals[a].st = "pending" /\ goals'[a].st = "done"
  /\ currentGoal /= NoGoal /\ currentGoal /= a

\* C5: when a pending attempt A is finalized after a goal B was installed,
\* B is still held by the solver and the executor and getStatus() still
\* reports moving with B's description.
C5_SupersededKeepsNewGoal ==
  [][\A a \in GoalIds :
       SettlesSuperseded(a) =>
         /\ currentGoal' = currentGoal /\ solverGoal' = solverGoal
         /\ status' = status]_vars

\* C6: a follow goal stays the active goal (solver goal set, moving true)
\* through every step that is neither a stop, nor a new goal, nor a
\* disconnect; no link or solver event clears it.
C6_FollowPersists ==
  [][(currentGoal /= NoGoal /\ currentGoalDynamic /\ lastOp'.op = "event") =>
       /\ currentGoal' = currentGoal /\ solverGoal' = solverGoal
       /\ solverGoal' = currentGoal /\ status'.moving]_vars

\* A processMessage run holds a snapshot of the stop counter
Running == llm.pc \in {"awaitModel", "awaitTool"}

\* C7: the stop counter starts at 0 and equals the number of stopMovement()
\* calls made so far, whatever else has run (connect, disconnect, mineArea
\* start and exit, movement events); it never decreases; and for the value
\* a processMessage run read with getStopSignal(), wasStoppedAfter is true
\* iff stopMovement() has been called since.
C7_StopCounter ==
  /\ [](stopSignal = stopCalls)
  /\ [][stopSignal' >= stopSignal]_vars
  /\ [](Running => (wasStoppedAfter(State, llm.stopSignalAtStart)
                       <=> stopCalls > llm.stopCallsAtStart))

\* C7 witness: a run that read the counter after one stop sees a later stop,
\* with a mineArea task started and exited in between
C7_Witness ==
  /\ llm.pc = "awaitModel" /\ llm.stopSignalAtStart = 1 /\ stopSignal = 2
  /\ wasStoppedAfter(State, llm.stopSignalAtStart)
  /\ \E t \in TaskIds : tasks[t].pc = "returned"

\* C8: once stopMovement() was called while a processMessage run awaited a
\* tool call, the run issues no remaining tool call of the round.
C8_NoStepAfterStop == ~llm.issuedAfterStop

\* C9 as claimed: at most one reconnect timer is pending, and a link that
\* was kicked and then ended has scheduled exactly one timer and consumed
\* exactly one attempt.
C9_ExactlyOneAlways ==
  /\ timersLive <= 1
  /\ (linkKicked /\ linkState = "ended") => (termSchedules = 1 /\ termAttempts = 1)

\* C9: at most one reconnect timer is pending; one link termination
\* schedules at most one timer, consuming one attempt per timer; and a link
\* that was kicked and then ended with the budget not exhausted at either
\* event has scheduled exactly one timer and consumed exactly one attempt.
C9_OneTimerPerTermination ==
  /\ timersLive <= 1
  /\ (reconnectTimer <=> timersLive = 1)
  /\ termSchedules <= 1 /\ termAttempts = termSchedules
  /\ (linkKicked /\ linkState = "ended" /\ termExhausted = 0)
        => (termSchedules = 1 /\ termAttempts = 1)

\* C9 witness: kicked, then ended, one timer pending, one attempt consumed
C9_Witness ==
  /\ linkKicked /\ linkState = "ended" /\ termExhausted = 0
  /\ reconnectTimer /\ termSchedules = 1 /\ reconnectAttempts = 1

\* C10: for one link termination the reconnect-budget-exhausted condition
\* is surfaced at most once, not once per link event.
C10_ExhaustedOnce == termExhausted <= 1

\* The connect() of a reconnection attempt has failed (by 'error' or by the
\* 30 s timeout)
FailedReconnect == bot /\ linksCreated > 1 /\ connectState = "rejected"

\* C11: a failed reconnection attempt is eventually followed by another
\* scheduled reconnect attempt or by the budget-exhausted condition (or the
\* bot gets ready, or it is disconnected by its user).
C11_FailedAttemptRetried ==
  [](FailedReconnect =>
       <>(reconnectTimer \/ termExhausted > 0 \/ isReady(State) \/ ~bot))

\* A step that is a disconnect() call
DisconnectStep == lastOp'.op = "disconnect" /\ lastOp' /= lastOp

\* C12: a reconnect timer is pending only while the manager holds a link
\* that was kicked or has ended, so none is pending when disconnect() has
\* returned nor later, until a connect() is followed by such a termination;
\* the 'end' of the link that disconnect() released schedules nothing; and
\* disconnect() called with no link held changes nothing.
C12_DisconnectNoReconnect ==
  /\ [](reconnectTimer => bot /\ (linkKicked \/ linkState = "ended"))
  /\ [](timersLive > 0 => reconnectTimer)
  /\ [][DisconnectStep => ~bot' /\ ~reconnectTimer' /\ timersLive' = 0]_vars
  /\ [][lastOp'.op = "disconnect" /\ ~bot =>
         Becomes([State EXCEPT !.lastOp = lastOp'])]_vars

\* C12 witness: disconnect() cancelled a pending reconnect and released a
\* link that has since emitted its 'end'; no timer is pending
C12_Witness ==
  /\ ~bot /\ reconnectAttempts > 0 /\ ~released.ending
  /\ lastOp.op = "event" /\ ~reconnectTimer /\ timersLive = 0

\* The promise of the latest connect() has settled on the link still held.
ConnectSettled == bot /\ connectState \in {"resolved", "rejected"}

\* C13: each connect() settles at most once, by the first of 'spawn', 'error'
\* and the 30 s timeout.  It resolves only in the step of the link's 'spawn',
\* after which isReady() holds (and getState() is non-null: it tests the same
\* two fields); it fails only in a step that changes nothing else (the
\* 'error' listener or the timeout); once settled, no later signal of the same
\* link changes the outcome.
C13_ConnectSettlesOnce ==
  /\ [][ConnectSettled /\ linksCreated' = linksCreated /\ bot'
          => connectState' = connectState]_vars
  /\ [][connectState = "pending" /\ connectState' = "resolved"
          => /\ linkState = "open" /\ ~initialized /\ initialized'
             /\ bot' /\ entity' /\ linksCreated' = linksCreated]_vars
  /\ [][connectState = "pending" /\ connectState' = "rejected"
          => Becomes([State EXCEPT !.connectState = "rejected",
                                   !.lastOp = lastOp'])]_vars
  /\ [][connectState' = "pending" /\ connectState /= "pending"
          => linksCreated' = linksCreated + 1]_vars

\* A connect() that failed on 'error' and whose link spawned afterwards, and
\* the 30 s timer of an earlier connect() has fired on a released link.
C13_Witness ==
  /\ bot /\ connectState = "rejected" /\ initialized /\ entity
  /\ linksCreated > 1 /\ ~released.connecting

\* A step within the life of one AuthHandler
SameHandler == linksCreated' = linksCreated /\ auth.handler /\ auth'.handler

\* C14: within one AuthHandler, loggedIn never goes from true to false and
\* attempts never decreases, whatever lines arrive, sequences resume or
\* timers fire.
C14_AuthMonotonic ==
  [][SameHandler => /\ (auth.loggedIn => auth'.loggedIn)
                    /\ auth'.attempts >= auth.attempts]_vars

\* Logged in after two submissions, the 60 s timer has fired, and a further
\* line has been handled.
C14_Witness ==
  /\ auth.handler /\ auth.loggedIn /\ auth.attempts >= 2
  /\ initialized /\ ~auth.timeoutPending /\ lastOp.op = "message"

\* C15: once loggedIn is true, a line that is not a success line (a
\* registration-needed or login-needed line, or any other) starts no attempt
\* sequence and changes no AuthState field: the step changes nothing.
C15_PromptAfterSuccessIgnored ==
  [][auth.loggedIn /\ lastOp'.op = "message" /\ auth'.emitted /= "auth_success"
      => Becomes([State EXCEPT !.lastOp = lastOp', !.auth.emitted = "none"])]_vars

\* A line other than success has been handled while loggedIn was true, with
\* no earlier attempt that could have blocked a new sequence.
C15_Witness ==
  /\ auth.loggedIn /\ ~auth.registered /\ auth.lastAttempt = "null"
  /\ lastOp.op = "message" /\ auth.emitted = "none"

\* C16: with AUTO_REGISTER disabled no credential is ever submitted, so
\* attempts stays 0 and lastAttempt stays null.
C16_NoSubmissionWhenDisabled ==
  [](~autoRegister => auth.attempts = 0 /\ auth.lastAttempt = "null")

\* C17: one AuthHandler emits auth_timeout at most once, only in the step of
\* the one-shot timer that 'spawn' scheduled and only if loggedIn is false
\* in that step; the step changes nothing but the timers of the handler.
C17_AuthTimeoutOnce ==
  /\ [](auth.timeoutEmits <= 1)
  /\ [][auth'.timeoutEmits > auth.timeoutEmits
          => lastOp'.op = "authTimeout" /\ auth.timeoutPending /\ ~auth.loggedIn]_vars
  /\ [][lastOp'.op = "authTimeout" /\ auth.timeoutPending
          => Becomes([State EXCEPT
                        !.lastOp = lastOp',
                        !.auth.timeoutPending = FALSE,
                        !.auth.authCheckTimer = FALSE,
                        !.auth.emitted = IF auth.loggedIn THEN "none" ELSE "auth_timeout",
                        !.auth.timeoutEmits = IF auth.loggedIn THEN @ ELSE @ + 1])]_vars
  /\ [][auth'.timeoutPending /\ ~auth.timeoutPending => initialized' /\ ~initialized]_vars

\* The one-shot timer has fired without a success line and emitted
\* auth_timeout, after submissions were made.
C17_Witness ==
  /\ auth.timeoutEmits = 1 /\ lastOp.op = "authTimeout" /\ auth.attempts > 0
  /\ ~auth.timeoutPending /\ ~auth.authCheckTimer

\* C18: when no mineArea invocation is running - every one made has exited
\* by returning or by failing - miningInProgress is false, and a mineArea
\* call is rejected as already running only while an invocation is running.
C18_FlagClearedOnExit ==
  /\ [](RunningTasks = {} => ~miningInProgress)
  /\ [][lastOp'.op = "mineArea" /\ lastOp' /= lastOp
          /\ lastOp'.result = "A mining task is already running"
          => RunningTasks /= {}]_vars

\* A task failed with an error and a later mineArea call was accepted.
C18_Witness ==
  \E t, u \in TaskIds :
    /\ tasks[t].pc = "failed" /\ tasks[u].pc \in RunningPcs
    /\ miningInProgress /\ lastOp.op = "mineArea"

\* Every movement attempt, equip, look and removal the task awaits settles:
\* no goal stays pending for ever and the task does not stay for ever in one
\* of the awaits of mineBlock.
AwaitedSettles ==
  /\ \A g \in GoalIds : []<>(goals[g].st /= "pending")
  /\ []<>(tasks[1].pc /= "equip")
  /\ []<>(tasks[1].pc /= "lookAt")
  /\ []<>(tasks[1].pc /= "dig")

\* C19: every mineArea invocation that is running eventually exits, by
\* returning or by failing, when every movement, look and removal it awaits
\* settles, whatever the world reports meanwhile.
C19_TaskEventuallyExits ==
  AwaitedSettles =>
    ((tasks[1].pc \in RunningPcs) ~> (tasks[1].pc \in {"returned", "failed"}))

\* The awaits of mineBlock: the task is handling tasks[t].cell
CellPcs == {"moveCell", "equip", "lookAt", "dig"}

\* A step that resumes task t while it handles a cell (a stop request only
\* marks the task)
CellStep(t) ==
  /\ tasks[t].pc \in CellPcs
  /\ [tasks'[t] EXCEPT !.stopped = tasks[t].stopped] /= tasks[t]

\* mineBlock went on to its next await for the same cell
CellAdvanced(a, b) ==
  /\ b.pc \in {"equip", "lookAt", "dig"} /\ b.cell = a.cell
  /\ b.skippedBlocks = a.skippedBlocks /\ b.minedBlocks = a.minedBlocks
  /\ b.ignoredBlocks = a.ignoredBlocks

\* bot.dig resolved: the cell counts as mined
CellMined(a, b) ==
  /\ a.pc = "dig" /\ b.minedBlocks = a.minedBlocks + 1
  /\ b.skippedBlocks = a.skippedBlocks
  /\ b.pc \in RunningPcs => b.ignoredBlocks = a.ignoredBlocks

\* The failure of the cell was recorded: one skip for it and the cell is
\* ignored.  Further cells are skipped in the same run only when the link is
\* gone (their mineBlock throws at once), each of them once.  The task goes
\* on; it fails in this step only if the hover reposition that follows
\* cannot start because the bot is not ready.
CellSkipped(a, b) ==
  /\ b.minedBlocks = a.minedBlocks
  /\ IF b.pc \in RunningPcs
       THEN /\ a.cell \in b.ignoredBlocks /\ a.ignoredBlocks \subseteq b.ignoredBlocks
            /\ b.skippedBlocks =
                 a.skippedBlocks + Cardinality(b.ignoredBlocks \ a.ignoredBlocks)
            /\ readyError(State) = "none" =>
                 b.skippedBlocks = a.skippedBlocks + 1
       ELSE /\ b.pc = "failed" /\ readyError(State) /= "none"
            /\ b.skippedBlocks > a.skippedBlocks
            /\ b.skippedBlocks <= a.skippedBlocks + Cardinality(Cells \ a.ignoredBlocks)

\* C20: a step that resumes a task handling a cell either goes on with the
\* cell, counts it as mined, or - on any failure, unless a stop was
\* requested - records exactly one skip for the cell, ignores it and goes on
\* with the next scan; after a stop request the task returns.  The failure
\* of a cell never makes the task fail while the bot is ready.
C20_CellFailureAbsorbed ==
  [][\A t \in TaskIds :
       CellStep(t) =>
         \/ CellAdvanced(tasks[t], tasks'[t])
         \/ CellMined(tasks[t], tasks'[t])
         \/ abortMining /\ tasks'[t].pc = "returned"
         \/ ~abortMining /\ CellSkipped(tasks[t], tasks'[t])]_vars

\* A cell was skipped after a failure and the task is moving to another cell.
C20_Witness ==
  \E t \in TaskIds :
    /\ tasks[t].pc = "moveCell" /\ tasks[t].skippedBlocks = 1
    /\ tasks[t].ignoredBlocks /= {} /\ tasks[t].cell \notin tasks[t].ignoredBlocks
    /\ ~abortMining /\ isReady(State)

\* C21: while a mineArea invocation runs its ignored set only grows, and
\* the cell it is handling - the one the scan returned, which is moved to,
\* looked at and dug - is never a cell of the ignored set.
C21_IgnoredNeverSelected ==
  /\ [](\A t \in TaskIds :
          tasks[t].pc \in CellPcs =>
            tasks[t].cell \in Cells \ tasks[t].ignoredBlocks)
  /\ [][\A t \in TaskIds :
          tasks[t].pc \in RunningPcs /\ tasks'[t].pc \in RunningPcs =>
            tasks[t].ignoredBlocks \subseteq tasks'[t].ignoredBlocks]_vars

\* The task handles a cell while the world reports a diggable block in a
\* cell it ignores.
C21_Witness ==
  \E t \in TaskIds :
    /\ tasks[t].pc \in CellPcs /\ isReady(State)
    /\ \E c \in tasks[t].ignoredBlocks : world[c]

\* The withTimeout timer of attempt g fires in this step.
TimeoutStep(g) == goals[g].st = "pending" /\ goals'[g].late

\* What getStatus() reports after a movement timeout
TimedOutStatus ==
  [moving |-> FALSE, currentGoal |-> NoDescription, lastError |-> "timeout"]

StopStep == lastOp'.op = "stopMovement" /\ stopCalls' = stopCalls + 1

\* Nothing is moving: the solver and the executor hold no goal and the
\* status reports moving=false and no current goal.
Stopped ==
  /\ solverGoal = NoGoal /\ currentGoal = NoGoal
  /\ ~getMovementStatus(State).moving
  /\ getMovementStatus(State).currentGoal = NoDescription

\* A goal object is created in this step.
GoalInstalled == \E g \in GoalIds : goals[g].st = "free" /\ goals'[g].st /= "free"

\* C23 as claimed: every stopMovement() leaves nothing moving, increments
\* the stop counter and emits the stopped event.
C23_StopAlwaysEmits ==
  [][StopStep => Stopped' /\ stopSignal' = stopSignal + 1 /\ lastOp'.stopped]_vars

\* C23: every stopMovement() leaves nothing moving and increments the stop
\* counter; it emits the stopped event when the movement controller is
\* initialized; and once nothing is moving it stays so until a goal is
\* installed.
C23_StopLeavesNoGoal ==
  /\ [][StopStep => /\ Stopped' /\ stopSignal' = stopSignal + 1
                    /\ lastOp'.stopped <=> (mcExists /\ initialized)]_vars
  /\ [][Stopped /\ ~GoalInstalled => Stopped']_vars

\* A stop was requested while a follow goal was at the solver, and the
\* attempt it had superseded has failed since.
C23_Witness ==
  /\ stopCalls > 0 /\ Stopped /\ initialized
  /\ \E g, h \in GoalIds :
       /\ goals[g].st = "follow" /\ goals[g].events = 1
       /\ goals[h].st = "done"

\* handleReconnect takes its budget-exhausted branch in this step.
ExhaustedStep == termExhausted' > termExhausted

\* C24: when the reconnect budget is exhausted the link is released and the
\* dependent components are destroyed, so that the manager is Disconnected
\* and no observer sees a connected or ready bot.
C24_ExhaustionTearsDown ==
  [][ExhaustedStep => /\ ~bot' /\ ~mcExists' /\ ~auth'.handler
                      /\ ~isReady(State)']_vars

\* A connect() call creates a link in this step while the manager holds one.
ConnectOverLink == bot /\ linksCreated' = linksCreated + 1

\* What the manager holds besides the record of the links it let go.
ManagerVars ==
  << bot, reconnectAttempts, reconnectTimer, isShuttingDown, mcExists,
     miningInProgress, abortMining, stopSignal, entity, linkState, linkKicked,
     linksCreated, connectState, reconnectDelayMs, delayMs, auth, initialized,
     solverGoal, currentGoal,
     currentGoalDescription, currentGoalDynamic, status, goals, tasks, llm,
     timersLive, termSchedules, termAttempts, termExhausted, stopCalls >>

\* C25: the manager listens to at most one link, the one it holds: connect()
\* called while a link exists quits that link, takes its listeners off it,
\* cancels a pending reconnect and destroys the components that depended on
\* it before the new link is created; and what a link that was let go emits
\* later (its 'end', the timeout of its connect()) changes no manager state.
C25_SingleLink ==
  /\ [](~released.listening)
  /\ [][ConnectOverLink =>
         /\ linkState = "open" => released'.ending
         /\ connectState = "pending" => released'.connecting
         /\ ~reconnectTimer' /\ timersLive' = 0
         /\ ~initialized' /\ status' = IdleStatus
         /\ solverGoal' = NoGoal /\ currentGoal' = NoGoal
         /\ auth' = NewAuth
         /\ bot' /\ linkState' = "open" /\ ~entity' /\ connectState' = "pending"]_vars
  /\ [][ReleasedLinkEnd \/ ReleasedConnectTimeout => UNCHANGED ManagerVars]_vars

\* C25 witness: connect() was called over a link that had not spawned; the
\* new link has spawned, and the old one has emitted its 'end' and its
\* connect() has timed out.
C25_Witness ==
  /\ linksCreated = 2 /\ isReady(State) /\ connectState = "resolved"
  /\ reconnectAttempts = 0
  /\ released = NoReleased /\ lastOp.op = "event"

\* The connect() promise of the link held is resolved in this step.
ConnectResolves == connectState = "pending" /\ connectState' = "resolved"

\* The link held has spawned for connect() and has not terminated.
ResolvedLinkUp ==
  bot /\ connectState = "resolved" /\ linkState = "open" /\ ~linkKicked

RECURSIVE Doubled(_, _)
Doubled(base, n) == IF n <= 1 THEN base ELSE 2 * Doubled(base, n - 1)

\* A reconnect timeout is scheduled in this step.
ScheduleStep == ~reconnectTimer /\ reconnectTimer'

\* C27: the n-th consecutive reconnect attempt is scheduled with delay
\* min(baseDelay * 2^(n-1), 60000); the delay is non-decreasing in n and never
\* exceeds the cap.
C27_DelaySchedule ==
  /\ [][ScheduleStep =>
         /\ reconnectAttempts' = reconnectAttempts + 1
         /\ delayMs' = IF Doubled(reconnectDelayMs, reconnectAttempts') < capDelayMs
                         THEN Doubled(reconnectDelayMs, reconnectAttempts')
                         ELSE capDelayMs]_vars
  /\ [](delayMs <= capDelayMs)
  /\ [](\A n \in 1..(DelayBudget - 1) :
          reconnectDelay(reconnectDelayMs, n) <= reconnectDelay(reconnectDelayMs, n + 1))

\* C27 witness: the fifth attempt in a row under the default base delay is
\* the first that the cap shortens.
C27_Witness ==
  /\ reconnectTimer /\ reconnectAttempts = 5
  /\ reconnectDelayMs = DefaultReconnectDelayMs /\ delayMs = capDelayMs

\* The diggable cells of the cuboid
Removable == {c \in Cells : world[c]}

\* minedBlocks of the invocations so far
RECURSIVE MinedUpTo(_)
MinedUpTo(t) == IF t = 0 THEN 0 ELSE tasks[t].minedBlocks + MinedUpTo(t - 1)

\* C28 as claimed: in a static world where every movement and removal
\* succeeds, a clearArea that returns has mined every removable cell of the
\* cuboid and skipped none.
C28_AllMinedAlways ==
  \A t \in TaskIds :
    tasks[t].pc = "returned" => Removable = {} /\ tasks[t].skippedBlocks = 0

\* C28: in a static world where every movement and removal succeeds, each
\* removal is counted once (minedBlocks grows by the number of cells that
\* stop being removable), no cell is skipped, and a clearArea that returns has
\* mined every removable cell - N of N - provided its last scan, the one
\* made after the hover, reached every removable cell that was left.
C28_AllMined ==
  /\ [][MinedUpTo(MaxTasks)' + Cardinality(Removable') =
          MinedUpTo(MaxTasks) + Cardinality(Removable)]_vars
  /\ [](\A t \in TaskIds : tasks[t].skippedBlocks = 0)
  /\ [](\A t \in TaskIds : tasks[t].pc = "returned" /\ ~tasks[t].unseen
                               => Removable = {})

\* C28 witness: a clearArea returned after mining one cell, with nothing
\* left to remove.
C28_Witness ==
  \E t \in TaskIds :
    /\ tasks[t].pc = "returned" /\ tasks[t].minedBlocks = 1
    /\ tasks[t].skippedBlocks = 0 /\ ~tasks[t].unseen /\ Removable = {}

\* min <= max on every axis, and the same bounds for either order of corners
BoundsOrdered(b) ==
  LessEq(b.minX, b.maxX) /\ LessEq(b.minY, b.maxY) /\ LessEq(b.minZ, b.maxZ)
BoundsEqual(b, c) ==
  /\ StrictEq(b.minX, c.minX) /\ StrictEq(b.maxX, c.maxX)
  /\ StrictEq(b.minY, c.minY) /\ StrictEq(b.maxY, c.maxY)
  /\ StrictEq(b.minZ, c.minZ) /\ StrictEq(b.maxZ, c.maxZ)

\* No coordinate of the corner is NaN
Numeric(p) == ~p.x.nan /\ ~p.y.nan /\ ~p.z.nan

\* C29 as claimed: for all pairs of corners the bounds computed from (A, B)
\* equal those computed from (B, A), and on every axis min <= max.
C29_BoundsAlways ==
  area.called => BoundsEqual(area.bounds, area.swapped) /\ BoundsOrdered(area.bounds)

\* C29: for all pairs of corners whose coordinates are numbers (not NaN) the
\* bounds computed from (A, B) equal those computed from (B, A), on every
\* axis min <= max, and each bound is the floor of a coordinate of A or B.
C29_BoundsOrderIndependent ==
  area.called /\ Numeric(area.from) /\ Numeric(area.to) =>
    /\ BoundsEqual(area.bounds, area.swapped)
    /\ BoundsOrdered(area.bounds)
    /\ {area.bounds.minX, area.bounds.maxX} = {MathFloor(area.from.x), MathFloor(area.to.x)}
    /\ {area.bounds.minY, area.bounds.maxY} = {MathFloor(area.from.y), MathFloor(area.to.y)}
    /\ {area.bounds.minZ, area.bounds.maxZ} = {MathFloor(area.from.z), MathFloor(area.to.z)}

\* C29 witness: bounds were computed for corners given with the larger x
\* first and fractional, negative coordinates.
C29_Witness ==
  /\ area.called /\ Numeric(area.from) /\ Numeric(area.to)
  /\ area.from.x = Num(2) /\ area.to.x = Num(-3)
  /\ area.bounds.minX = Num(-4) /\ area.bounds.maxX = Num(2)

\* The attempt sequences of the AuthHandler that have not returned
InFlight == {i \in SeqIds : auth.seqs[i].pc /= "free"}

\* C30: at most one credential attempt sequence (registration or login) is
\* in flight at any time; a prompt line that arrives while one is running,
\* its initial delay included, starts no second one.
C30_OneSequenceInFlight == Cardinality(InFlight) <= 1

\* An attempt sequence sends a credential command (bot.chat) in this step.
SubmitStep == auth'.handler = auth.handler /\ auth'.attempts = auth.attempts + 1

\* C31: no credential command is sent in a state where loggedIn is already
\* true, whether success was observed during the initial delay or between
\* two submissions.
C31_NoSubmissionAfterSuccess == [][SubmitStep => ~auth.loggedIn]_vars

\* checkMovement takes a position sample in this step.
SampleStep == lastOp'.op = "checkMovement" /\ lastOp'.sample /= "none"

\* C32: while the solver reports movement, the sample that completes a run
\* of unchangedTickLimit consecutive samples with displacement below epsilon
\* emits one 'stuck' event and re-issues the executor's current goal, with
\* its dynamic flag, to the solver once, and leaves the count at 0; no other
\* sample emits or re-issues anything; a sample below epsilon that does not
\* complete a run adds one to the count; a sample at or above epsilon and a
\* sample taken while nothing moves reset the count to 0.
C32_StuckOncePerRun ==
  /\ [][SampleStep /\ lastOp'.sample = "still" =>
         IF obstacle.unchangedTicks + 1 = unchangedTickLimit
           THEN /\ lastOp'.stuck /\ obstacle'.unchangedTicks = 0
                /\ currentGoal /= NoGoal
                /\ lastOp'.retried = currentGoal
                /\ lastOp'.retriedDynamic = (goals[currentGoal].st = "follow")
                /\ solverGoal' = currentGoal /\ currentGoal' = currentGoal
                /\ goals' = [goals EXCEPT ![currentGoal].retries =
                                IF goals[currentGoal].st = "pending"
                                  THEN CountRetry(@) ELSE @]
                /\ status' = status
           ELSE /\ ~lastOp'.stuck /\ lastOp'.retried = NoGoal
                /\ obstacle'.unchangedTicks = obstacle.unchangedTicks + 1]_vars
  /\ [][SampleStep /\ lastOp'.sample \in {"moved", "idle"} =>
         /\ obstacle'.unchangedTicks = 0
         /\ ~lastOp'.stuck /\ lastOp'.retried = NoGoal]_vars
  /\ [][SampleStep /\ lastOp'.sample = "first" =>
         /\ obstacle.unchangedTicks = 0 /\ obstacle'.unchangedTicks = 0
         /\ ~lastOp'.stuck /\ lastOp'.retried = NoGoal]_vars
  /\ [][lastOp'.stuck => SampleStep /\ lastOp'.sample = "still"]_vars
  /\ [](obstacle.unchangedTicks < unchangedTickLimit)

\* C32 witness: the sixth still sample in a row has emitted 'stuck' and
\* re-issued the pending goal, and the count is back at 0.
C32_Witness ==
  /\ lastOp.stuck /\ lastOp.retried /= NoGoal /\ lastOp.retried = solverGoal
  /\ goals[lastOp.retried].st = "pending" /\ obstacle.unchangedTicks = 0

\* retryCurrentGoal re-issues goal g in this step.
RetryStep(g) == lastOp'.retried = g /\ g /= NoGoal

\* C33: a retry changes nothing of the attempt it re-issues: the attempt stays
\* pending (or following), withTimeout still holds the one timer it started
\* when the attempt began, and no terminal event is counted; a pending attempt
\* holds exactly one timer however often it was retried; and when that timer
\* fires on a retried attempt, the attempt fails with the timeout error.
C33_RetryKeepsDeadline ==
  /\ [][\A g \in GoalIds :
          RetryStep(g) =>
            /\ goals[g].st \in {"pending", "follow"}
            /\ goals' = [goals EXCEPT ![g].retries =
                            IF goals[g].st = "pending" THEN CountRetry(@) ELSE @]
            /\ status' = status /\ currentGoal' = currentGoal]_vars
  /\ [](\A g \in GoalIds :
          /\ goals[g].st = "pending" => goals[g].timers = 1
          /\ goals[g].st /= "pending" => goals[g].timers = 0)
  /\ [][\A g \in GoalIds :
          TimeoutStep(g) /\ goals[g].retries > 0 =>
            /\ goals'[g].st = "done" /\ goals'[g].retries = goals[g].retries
            /\ solverGoal' = NoGoal
            /\ Live(State, g) => status' = TimedOutStatus]_vars

\* C33 witness: an attempt that was retried MaxRetries times has failed with
\* the timeout error, and the solver has not settled its promise yet.
C33_Witness ==
  \E g \in GoalIds :
    /\ goals[g].st = "done" /\ goals[g].late /\ goals[g].retries = MaxRetries
    /\ status = TimedOutStatus

\* Task t is started or resumed in this step (a stop request only marks it).
TaskStep(t) == [tasks'[t] EXCEPT !.stopped = tasks[t].stopped] /= tasks[t]

\* mineArea of task t leaves its loop in this step although no stop was
\* requested: it reports the area as completed.
AreaExhaustedStep(t) ==
  /\ tasks'[t].pc = "returned"
  /\ tasks[t].pc = "free" \/ (tasks[t].pc \in RunningPcs /\ ~abortMining)

\* The moveTo awaited by task t resolves in this step.
HoverResolved(t) ==
  \E g \in GoalIds :
    /\ goals[g].owner = t /\ goals[g].st = "pending"
    /\ goals'[g].st = "done" /\ ~goals'[g].late

\* C34: mineArea reports the area as completed only in the step in which the
\* move to the hover point resolves and the scan that follows finds nothing,
\* that move having been started after a scan that found nothing; a task
\* moves to the hover point only if it has not done so since it started or
\* last found a cell, so at most once between two found cells; and while a
\* task handles a found cell the rescan is armed again.
C34_ExhaustedAfterOneRescan ==
  /\ [][\A t \in TaskIds :
          AreaExhaustedStep(t) =>
            /\ tasks[t].pc = "hover" /\ tasks[t].hovers = 1
            /\ ~tasks[t].shouldRescanAfterReposition
            /\ HoverResolved(t)]_vars
  /\ [][\A t \in TaskIds :
          TaskStep(t) /\ tasks'[t].pc = "hover" =>
            /\ tasks[t].pc /= "hover" /\ tasks[t].hovers = 0
            /\ tasks[t].pc \in RunningPcs => tasks[t].shouldRescanAfterReposition]_vars
  /\ [](\A t \in TaskIds :
          /\ tasks[t].pc = "hover" =>
                tasks[t].hovers = 1 /\ ~tasks[t].shouldRescanAfterReposition
          /\ tasks[t].pc \in CellPcs =>
                tasks[t].hovers = 0 /\ tasks[t].shouldRescanAfterReposition)

\* C34 witness: a task that found and mined a cell has moved to the hover
\* point and reported the area as completed, no stop having been requested.
C34_Witness ==
  \E t \in TaskIds :
    /\ tasks[t].pc = "returned" /\ ~tasks[t].stopped
    /\ tasks[t].minedBlocks = 1 /\ tasks[t].skippedBlocks = 0
    /\ stopSignal = 0 /\ lastOp.op = "event"

\* The line delivered in this step is a prompt: it matches no success pattern
\* and matches a registration or a login pattern.
PromptStep ==
  /\ lastOp'.line /= NoLine /\ "success" \notin lastOp'.line
  /\ "registration" \in lastOp'.line \/ "login" \in lastOp'.line

\* An attempt sequence calls bot.chat(command) in this step.
ChatStep == auth'.submitted > auth.submitted

\* C35: a prompt line delivered less than minAttemptIntervalMs after the
\* latest submission starts no attempt sequence and changes no field of the
\* AuthState; every submission adds one to attempts and sets lastAttempt to
\* now; attempts equals the number of submissions the handler has sent.
C35_ThrottleAndCount ==
  /\ [][PromptStep /\ auth.lastAttempt = "short" =>
          auth' = [auth EXCEPT !.emitted = "none"]]_vars
  /\ [][ChatStep =>
          /\ auth'.submitted = auth.submitted + 1
          /\ auth'.attempts = auth.attempts + 1
          /\ auth'.lastAttempt = "short"]_vars
  /\ [][auth'.attempts > auth.attempts => ChatStep]_vars
  /\ [](auth.attempts = auth.submitted)

\* C35 witness: a login prompt was delivered shortly after the first
\* submission of the only sequence in flight.
C35_Witness ==
  /\ lastOp.line = {"login"} /\ auth.lastAttempt = "short"
  /\ auth.attempts = 1 /\ auth.submitted = 1 /\ ~auth.loggedIn
  /\ Cardinality(InFlight) = 1

\* The handler starts one attempt sequence of this kind in this step and
\* does nothing else.
SequenceStarted(kind) ==
  \E i \in SeqIds :
    /\ auth.seqs[i].pc = "free"
    /\ auth' = [auth EXCEPT !.seqs[i] = [pc |-> "delay", kind |-> kind, sent |-> 0],
                            !.emitted = "none"]

\* The handler does nothing in this step.
LineIgnored == auth' = [auth EXCEPT !.emitted = "none"]

\* What the registration path does when it is free to attempt.
RegistrationPath ==
  IF autoRegister THEN SequenceStarted("registration")
  ELSE auth' = [auth EXCEPT !.emitted = "auth_required"]

\* C36: a line that matches a success pattern only sets loggedIn, sets
\* registered if it matches /register/i, emits auth_success and stops the
\* periodic check: it starts no attempt whatever else it matches.  Any other
\* line is ignored once loggedIn is set or while the last submission is
\* recent.  Otherwise a line that matches a registration pattern while
\* registered is false takes the registration path only, also when it
\* matches a login pattern; a line that matches a login pattern and either
\* no registration pattern or registered is true takes the login path; a
\* line that matches only registration patterns while registered is true,
\* and a line that matches nothing, are ignored.
C36_LinePriority ==
  [][lastOp'.line /= NoLine =>
       LET line == lastOp'.line
       IN IF "success" \in line
            THEN auth' = [auth EXCEPT !.loggedIn = TRUE,
                                      !.registered = @ \/ "register" \in line,
                                      !.emitted = "auth_success",
                                      !.authCheckTimer = FALSE]
          ELSE IF auth.loggedIn \/ auth.lastAttempt = "short" THEN LineIgnored
          ELSE IF "registration" \in line /\ ~auth.registered THEN RegistrationPath
          ELSE IF "login" \in line THEN SequenceStarted("login")
          ELSE LineIgnored]_vars

\* C36 witness: a line matching both a registration and a login pattern was
\* delivered while registered was false, and the only sequence in flight is
\* the registration sequence it started.
C36_Witness ==
  /\ lastOp.line = {"registration", "login"} /\ ~auth.registered
  /\ \E i \in SeqIds :
       /\ auth.seqs[i] = [pc |-> "delay", kind |-> "registration", sent |-> 0]
       /\ InFlight = {i}

\* C37: when disconnect() has returned, none of the reconnect timer, the
\* sampling interval of the ObstacleHandler, the auth-check interval and the
\* 60 s one-shot timer of the AuthHandler is scheduled any more.
C37_NoTimerAfterDisconnect ==
  lastOp.op = "disconnect" =>
    /\ ~reconnectTimer /\ timersLive = 0
    /\ ~obstacle.monitorTimer
    /\ ~auth.authCheckTimer
    /\ ~auth.timeoutPending

\* C38: an attempt sequence calls bot.chat(command) only while its
\* AuthHandler has not been destroyed, so never on a link that disconnect()
\* has released.
C38_NoSubmissionAfterDisconnect == [][ChatStep => auth.handler /\ bot]_vars

\* moveTo, followPlayer, mineArea or stopMovement is called in this step.
MovementCallStep ==
  /\ lastOp'.op \in {"moveTo", "followPlayer", "mineArea", "stopMovement"}
  /\ lastOp'.op = "stopMovement" => stopCalls' = stopCalls + 1

\* C39: a movement operation called while the bot is not ready or the
\* movement controller is not initialized reports an error and changes
\* nothing: no goal is installed and the mining flags, the movement status
\* and the stop counter stay as they were.
C39_NotReadyFailsFast ==
  [][MovementCallStep /\ readyError(State) /= "none" =>
       /\ lastOp'.result \notin {"ok", "pending"}
       /\ solverGoal' = solverGoal /\ currentGoal' = currentGoal
       /\ goals' = goals /\ tasks' = tasks
       /\ miningInProgress' = miningInProgress /\ abortMining' = abortMining
       /\ status' = status /\ stopSignal' = stopSignal]_vars

\* mineArea of task t leaves its loop in this step because abortMining is set.
TaskCancelledStep(t) ==
  /\ tasks'[t].pc = "returned" /\ abortMining
  /\ tasks[t].pc \in RunningPcs \cup {"free"}

\* C40: a task leaves its loop on abortMining only if stopMovement() was
\* called while it was running; a task is marked as stopped only by such a
\* call; and a task starts with abortMining cleared, whatever stop requests
\* came before.
C40_OnlyLaterStopCancels ==
  /\ [][\A t \in TaskIds : TaskCancelledStep(t) => tasks[t].stopped]_vars
  /\ [][\A t \in TaskIds :
          ~tasks[t].stopped /\ tasks'[t].stopped =>
            StopStep /\ tasks[t].pc \in RunningPcs]_vars
  /\ [][\A t \in TaskIds :
          tasks[t].pc = "free" /\ tasks'[t].pc \in RunningPcs =>
            ~abortMining' /\ ~tasks'[t].stopped]_vars

\* C40 witness: the first task was stopped and has returned; the task started
\* after it has mined a cell and reported the area as completed without
\* being stopped.
C40_Witness ==
  /\ tasks[1].pc = "returned" /\ tasks[1].stopped
  /\ tasks[2].pc = "returned" /\ ~tasks[2].stopped /\ tasks[2].minedBlocks = 1

====
